---- MODULE Spec2Model ----
(***************************************************************************)
(* Tool execution framework of ai-cli: the validate / confirm / execute    *)
(* lifecycle (base-tool.ts), the write_file and run_shell_command tools,   *)
(* the MCP bridge and the ToolManager orchestrator.                        *)
(*                                                                         *)
(* Strings that the code inspects character by character (paths, shell     *)
(* commands) are sequences of one-character strings.                       *)
(***************************************************************************)
EXTENDS Integers, Sequences, FiniteSets, TLC

(***************************************************************************)
(* Bounds of the model.                                                    *)
(***************************************************************************)
\* longest path / directory string given to a validator
MaxPathLen == 8

(***************************************************************************)
(* Path arithmetic of node:path (posix), as used by the validators.        *)
(***************************************************************************)
PathChars == {"/", ".", "w"}

PathStrings == UNION {[1..n -> PathChars] : n \in 0..MaxPathLen}

\* the workspace root handed to WriteFileTool and ShellTool, "/w"
WorkspaceRoot == <<"/", "w">>

\* path.isAbsolute (posix): the string begins with "/"
IsAbsolute(p) == Len(p) > 0 /\ p[1] = "/"

\* p.split("/"): the segments between slashes, empty ones included
RECURSIVE SplitSlash(_)
SplitSlash(p) ==
  IF p = <<>> THEN << <<>> >>
  ELSE LET rest == SplitSlash(Tail(p)) IN
       IF Head(p) = "/" THEN << <<>> >> \o rest
       ELSE << <<Head(p)>> \o Head(rest) >> \o Tail(rest)

\* normalisation of an absolute path: "" and "." vanish, ".." pops (and
\* stays at "/" when there is nothing to pop)
RECURSIVE NormSegs(_, _)
NormSegs(segs, acc) ==
  IF segs = <<>> THEN acc
  ELSE LET s == Head(segs) IN
       IF s = <<>> \/ s = <<".">> THEN NormSegs(Tail(segs), acc)
       ELSE IF s = <<".", ".">>
            THEN NormSegs(Tail(segs),
                          IF acc = <<>> THEN acc ELSE SubSeq(acc, 1, Len(acc) - 1))
            ELSE NormSegs(Tail(segs), Append(acc, s))

\* path.resolve(base, p) for an absolute base: the normalised segments
PathResolve(base, p) ==
  IF IsAbsolute(p) THEN NormSegs(SplitSlash(p), <<>>)
  ELSE NormSegs(SplitSlash(base) \o SplitSlash(p), <<>>)

\* segs.join("/")
RECURSIVE JoinSlash(_)
JoinSlash(segs) ==
  IF segs = <<>> THEN <<>>
  ELSE IF Len(segs) = 1 THEN Head(segs)
  ELSE Head(segs) \o <<"/">> \o JoinSlash(Tail(segs))

\* number of leading segments two resolved paths share
RECURSIVE CommonLen(_, _)
CommonLen(a, b) ==
  IF a = <<>> \/ b = <<>> \/ Head(a) # Head(b) THEN 0
  ELSE 1 + CommonLen(Tail(a), Tail(b))

\* path.relative on two resolved paths: ".." for every segment of from below
\* the common ancestor, then the rest of to; the empty string when they are
\* the same path
RelativeSegs(f, t) ==
  LET c == CommonLen(f, t)
      ups == [i \in 1..(Len(f) - c) |-> <<".", ".">>]
  IN JoinSlash(ups \o SubSeq(t, c + 1, Len(t)))

\* path.relative(from, to): both are resolved first
PathRelative(from, to) ==
  RelativeSegs(PathResolve(WorkspaceRoot, from), PathResolve(WorkspaceRoot, to))

\* String.prototype.startsWith("..")
StartsWithDotDot(s) == Len(s) >= 2 /\ s[1] = "." /\ s[2] = "."

(***************************************************************************)
(* Containment, stated on resolved paths: a path lies strictly inside the  *)
(* workspace when the root's segments are a proper prefix of its own.      *)
(***************************************************************************)
RootSegs == PathResolve(WorkspaceRoot, WorkspaceRoot)

IsPrefix(a, b) == Len(a) <= Len(b) /\ SubSeq(b, 1, Len(a)) = a

StrictlyInside(segs) == IsPrefix(RootSegs, segs) /\ segs # RootSegs

(***************************************************************************)
(* Optional parameters: <<>> is an absent (undefined) parameter, <<v>> a   *)
(* present one.                                                            *)
(***************************************************************************)
Absent == <<>>
Some(v) == <<v>>
IsPresent(o) == o # <<>>
Value(o) == o[1]

\* what validateToolParams returns when it accepts
NoError == "null"

(***************************************************************************)
(* WriteFileTool.validateToolParams                                        *)
(***************************************************************************)
WriteFileValidate(params) ==
  IF params.file_path = <<>> THEN "file_path is required"
  ELSE IF ~IsAbsolute(params.file_path) THEN "file_path must be absolute"
  ELSE IF ~IsPresent(params.content) THEN "content is required"
  ELSE IF StartsWithDotDot(PathRelative(WorkspaceRoot, params.file_path))
       THEN "File path must be within workspace"
  ELSE NoError

(***************************************************************************)
(* Shell command strings: trim() and split(" ")[0]                         *)
(***************************************************************************)
RECURSIVE TrimLeft(_)
TrimLeft(s) == IF s # <<>> /\ Head(s) = " " THEN TrimLeft(Tail(s)) ELSE s

RECURSIVE TrimRight(_)
TrimRight(s) ==
  IF s # <<>> /\ s[Len(s)] = " " THEN TrimRight(SubSeq(s, 1, Len(s) - 1)) ELSE s

Trim(s) == TrimRight(TrimLeft(s))

\* s.split(" ")[0]: the characters before the first blank
RECURSIVE FirstToken(_)
FirstToken(s) ==
  IF s = <<>> \/ Head(s) = " " THEN <<>> ELSE <<Head(s)>> \o FirstToken(Tail(s))

\* the timeout range, the default timeout and the kill grace period, in ms
MinTimeout == 1000
MaxTimeout == 300000
DefaultTimeout == 30000
GracePeriod == 5000

(***************************************************************************)
(* ShellTool.validateToolParams. An empty directory string is falsy, like  *)
(* an absent one; a timeout of 0 is falsy, like an absent one.             *)
(***************************************************************************)
ShellValidate(params) ==
  IF Trim(params.command) = <<>> THEN "command is required and cannot be empty"
  ELSE IF params.directory # <<>> /\ IsAbsolute(params.directory)
       THEN "directory must be relative to workspace root"
  ELSE IF params.directory # <<>>
          /\ StartsWithDotDot(
               RelativeSegs(PathResolve(WorkspaceRoot, WorkspaceRoot),
                            PathResolve(WorkspaceRoot, params.directory)))
       THEN "directory must be within workspace"
  ELSE IF IsPresent(params.timeout) /\ Value(params.timeout) # 0
          /\ (Value(params.timeout) < MinTimeout \/ Value(params.timeout) > MaxTimeout)
       THEN "timeout must be between 1000ms and 300000ms"
  ELSE NoError

\* the timeout ShellToolInvocation.execute arms: the parameter, or the default
EffectiveTimeout(params) ==
  IF IsPresent(params.timeout) THEN Value(params.timeout) ELSE DefaultTimeout

\* the working directory ShellToolInvocation.execute hands to spawn
ShellCwd(params) ==
  IF params.directory # <<>> THEN PathResolve(WorkspaceRoot, params.directory)
  ELSE PathResolve(WorkspaceRoot, WorkspaceRoot)

(***************************************************************************)
(* Shell trust model: the static allow-set of root command tokens.         *)
(***************************************************************************)
allowedCommands ==
  { <<"l","s">>, <<"d","i","r">>, <<"p","w","d">>, <<"e","c","h","o">>,
    <<"c","a","t">>, <<"h","e","a","d">>, <<"t","a","i","l">>,
    <<"g","r","e","p">>, <<"f","i","n","d">>, <<"g","i","t">>,
    <<"n","p","m">>, <<"n","o","d","e">>, <<"p","y","t","h","o","n">>,
    <<"p","i","p">>, <<"c","a","r","g","o">>, <<"r","u","s","t","c">>,
    <<"m","k","d","i","r">>, <<"t","o","u","c","h">>, <<"c","p">>,
    <<"m","v">>, <<"r","m">> }

\* ShellToolInvocation.shouldConfirmExecute: a request is returned exactly
\* when the root token is not in the allow-set
ShellNeedsConfirm(params) ==
  FirstToken(Trim(params.command)) \notin allowedCommands

\* the root token shouldConfirmExecute looks up: command.trim().split(" ")[0]
rootCommand(command) == FirstToken(Trim(command))

\* the ToolConfirmationOutcome values
Outcomes == {"proceed", "proceed_always", "cancel"}

\* new ShellToolInvocation(params, workspaceRoot): the allowedCommands field
\* is initialised to a new Set for every object. requested tells whether
\* shouldConfirmExecute has returned a request, lastConfirm what its last
\* call returned, always whether a request's onConfirm was given ProceedAlways
NewShellInvocation(command) ==
  [command |-> command, allowedCommands |-> allowedCommands, confirmCalls |-> 0,
   requested |-> FALSE, lastConfirm |-> "none", always |-> FALSE]

\* a decision that looks up the whole trimmed command instead of its root token
shouldConfirmShellWhole(i) ==
  IF Trim(i.command) \notin i.allowedCommands THEN "request" ELSE "false"

\* ShellToolInvocation.shouldConfirmExecute on an invocation object
shouldConfirmShell(i) ==
  IF rootCommand(i.command) \notin i.allowedCommands THEN "request" ELSE "false"

\* an onConfirm that adds the token to one set all invocations share
onConfirmShared(is, k, outcome) ==
  [j \in DOMAIN is |->
     [is[j] EXCEPT
        !.allowedCommands = IF outcome = "proceed_always"
                            THEN @ \cup {rootCommand(is[k].command)} ELSE @,
        !.always = IF j = k THEN @ \/ outcome = "proceed_always" ELSE @]]

\* an onConfirm that adds the token for no outcome
onConfirmForgetful(is, k, outcome) ==
  [is EXCEPT ![k].always = @ \/ outcome = "proceed_always"]

\* the onConfirm of a request of invocation k: ProceedAlways adds the root
\* token to the allowedCommands of that invocation
onConfirm(is, k, outcome) ==
  [is EXCEPT
     ![k].allowedCommands = IF outcome = "proceed_always"
                            THEN @ \cup {rootCommand(is[k].command)} ELSE @,
     ![k].always = @ \/ outcome = "proceed_always"]

(***************************************************************************)
(* The filesystem below the workspace root. The root "/w" is a directory;  *)
(* the nodes a call can touch are "/w/w" and "/w/w/w".                     *)
(***************************************************************************)
NodeA == << <<"w">>, <<"w">> >>
NodeB == << <<"w">>, <<"w">>, <<"w">> >>
FsNodes == {NodeA, NodeB}

\* a node is absent, a directory or a file; a locked file can be neither
\* read nor written (EACCES). A file's content is the sequence of its lines,
\* the empty string being the empty sequence
AbsentNode == [kind |-> "absent", content |-> <<>>, locked |-> FALSE]
DirNode == [kind |-> "dir", content |-> <<>>, locked |-> FALSE]
File(c) == [kind |-> "file", content |-> c, locked |-> FALSE]
LockedFile(c) == [kind |-> "file", content |-> c, locked |-> TRUE]

NodeOf(f, segs) ==
  IF IsPrefix(segs, RootSegs) THEN DirNode
  ELSE IF segs \in FsNodes THEN f[segs]
  ELSE AbsentNode

Parent(segs) == SubSeq(segs, 1, Len(segs) - 1)

\* fs.readFileSync: the content, or the error code
ReadFile(f, segs) ==
  LET n == NodeOf(f, segs) IN
  IF n.kind = "absent" /\ NodeOf(f, Parent(segs)).kind = "file"
  THEN [ok |-> FALSE, code |-> "ENOTDIR", content |-> <<>>]
  ELSE IF n.kind = "absent" THEN [ok |-> FALSE, code |-> "ENOENT", content |-> <<>>]
  ELSE IF n.kind = "dir" THEN [ok |-> FALSE, code |-> "EISDIR", content |-> <<>>]
  ELSE IF n.locked THEN [ok |-> FALSE, code |-> "EACCES", content |-> <<>>]
  ELSE [ok |-> TRUE, code |-> "", content |-> n.content]

\* a write that appends to what the file holds
WriteFileAppend(f, segs, c) ==
  LET n == NodeOf(f, segs) IN
  IF segs \notin FsNodes \/ NodeOf(f, Parent(segs)).kind # "dir" \/ n.kind = "dir"
     \/ n.locked
  THEN [ok |-> FALSE, fs |-> f]
  ELSE [ok |-> TRUE, fs |-> [f EXCEPT ![segs] = File(n.content \o c)]]

\* fs.writeFileSync: whole-file replace; fails when the parent is no
\* directory, the target is a directory or the file is locked
WriteFile(f, segs, c) ==
  LET n == NodeOf(f, segs) IN
  IF segs \notin FsNodes \/ NodeOf(f, Parent(segs)).kind # "dir" \/ n.kind = "dir"
     \/ n.locked
  THEN [ok |-> FALSE, fs |-> f]
  ELSE [ok |-> TRUE, fs |-> [f EXCEPT ![segs] = File(c)]]

\* fs.mkdirSync(dir, {recursive: true}): creates the directory below an
\* existing parent; fails when the name is taken by a file
Mkdir(f, segs) ==
  IF NodeOf(f, segs).kind = "dir" THEN [ok |-> TRUE, fs |-> f]
  ELSE IF segs \notin FsNodes \/ NodeOf(f, segs).kind = "file"
          \/ NodeOf(f, Parent(segs)).kind # "dir"
  THEN [ok |-> FALSE, fs |-> f]
  ELSE [ok |-> TRUE, fs |-> [f EXCEPT ![segs] = DirNode]]

(***************************************************************************)
(* State of one tool call through ToolManager, and of its surroundings.    *)
(***************************************************************************)
VARIABLES
  vTool, vParams, vError,  \* a direct call of a validator: tool, parameters, answer
  cfg,          \* ToolManagerConfig.useSimpleMCP and the names in the bridge registry
  fs,           \* the filesystem nodes below the workspace root
  call,         \* the entry point, tool name and parameters of the call
  pc,           \* where the call stands
  sig,          \* the caller's signal, the timeout signal, the combined signal,
                \* and (firedAt) where the call stood when the combined one fired
  orchTimer,    \* executeToolSafely's timeout timer
  inv,          \* the invocation: created, confirmation, execute
  child,        \* the spawned child process
  sh,           \* executeCommand's locals: aborted, listener, timers, output
  mcpReq,       \* the request to the MCP provider
  effects,      \* side effects performed so far
  toolResult,   \* how callTool's promise settled
  finalResult,  \* how the entry point's promise settled
  invocations,  \* ShellToolInvocation objects, each with its own allowedCommands
  servers,      \* MCPClient.servers: the names of the connected providers
  registry,     \* MCPClient.toolRegistry: the wrappers, in insertion order
  exposed,      \* the (provider, capability) pairs the providers listed
  connects,     \* how many times connectServer has run
  batch,        \* an executeToolCalls run: its calls, progress and responses
  writers,      \* write_file calls that run side by side
  registerCalls, \* the tools registerTool was called with on a registry, in order
  diffCall,     \* a call of calculateDiffStat: its two texts and what it returned
  bridge        \* the bridge in a ToolManager: how far initialize and shutdown are

valVars == <<vTool, vParams, vError>>
trustVars == <<invocations>>
nameVars == <<servers, registry, exposed, connects>>
multiVars == <<batch, writers, registerCalls, diffCall, bridge>>
lifeVars == <<cfg, fs, call, pc, sig, orchTimer, inv, child, sh, mcpReq, effects,
              toolResult, finalResult>>
vars == <<vTool, vParams, vError, cfg, fs, call, pc, sig, orchTimer, inv, child, sh,
          mcpReq, effects, toolResult, finalResult, invocations, servers, registry,
          exposed, connects, batch, writers, registerCalls,
          diffCall, bridge>>

\* most stdout chunks a child writes
MaxChunks == 1

BuiltinTools == {"write_file", "run_shell_command"}
BridgedName == "filesystem_read_file"
ToolNames == BuiltinTools \cup {BridgedName, "unknown_tool"}

\* parameters the caller of a whole call may pass
CallPaths ==
  { <<"/","w","/","w">>, <<"/","w">>, <<"/","w","w">>, <<"w">>,
    <<"/","w","/","w","/","w">> }
CallCommands == { <<>>, <<"l","s">>, <<"x"," ","l","s">> }
CallDirs == { <<>>, <<"w">>, <<".",".">> }
\* contents to write: the empty string, one line, two lines
CallContents == { <<>>, <<"a">>, <<"b", "a">> }
\* what a file holds before the call, and what another process may put there
OldContent == <<"b">>
OtherContent == <<"c">>
WriteParams ==
  [file_path : CallPaths, content : {Absent} \cup {Some(c) : c \in CallContents},
   create_directories : BOOLEAN]
ShellParams ==
  [command : CallCommands, directory : CallDirs,
   timeout : {Absent, Some(100), Some(MinTimeout)}]
McpParams == [isObject : BOOLEAN]
ParamsOf(name) ==
  IF name = "write_file" THEN WriteParams
  ELSE IF name = "run_shell_command" THEN ShellParams
  ELSE McpParams

\* a settled promise: a ToolResult (errType "" when it has no error entry)
\* or a thrown Error
\* (diff is the FileDiff a write_file result displays, absent elsewhere)
\* (message is the message of the error entry or of the thrown Error, where
\* the model follows it)
NoResult ==
  [kind |-> "none", errType |-> "", display |-> "", diff |-> Absent, message |-> ""]
Result(errType, display) ==
  [kind |-> "result", errType |-> errType, display |-> display, diff |-> Absent,
   message |-> ""]
ErrorResult(errType, display, message) ==
  [kind |-> "result", errType |-> errType, display |-> display, diff |-> Absent,
   message |-> message]
Thrown(message) ==
  [kind |-> "throw", errType |-> "", display |-> message, diff |-> Absent,
   message |-> message]

\* length of a longest common subsequence of two sequences of lines
RECURSIVE LCS(_, _)
LCS(a, b) ==
  IF a = <<>> \/ b = <<>> THEN 0
  ELSE IF Head(a) = Head(b) THEN 1 + LCS(Tail(a), Tail(b))
  ELSE LET x == LCS(Tail(a), b)
           y == LCS(a, Tail(b))
       IN IF x >= y THEN x ELSE y

\* a statistic that counts the lines of every part of the diff as added
calculateDiffStatAllParts(oldContent, newContent) ==
  LET common == LCS(oldContent, newContent)
      additions == Len(newContent)
      deletions == Len(oldContent) - common
  IN [additions |-> additions, deletions |-> deletions,
      changes |-> additions + deletions]

\* WriteFileToolInvocation.calculateDiffStat: Diff.diffLines gives a shortest
\* edit script; the counts of its added and of its removed lines
calculateDiffStat(oldContent, newContent) ==
  LET common == LCS(oldContent, newContent)
      additions == Len(newContent) - common
      deletions == Len(oldContent) - common
  IN [additions |-> additions, deletions |-> deletions,
      changes |-> additions + deletions]

\* the result of a successful write: its display is a FileDiff
FileDiffResult(originalContent, newContent) ==
  [kind |-> "result", errType |-> "", display |-> "FileDiff", message |-> "",
   diff |-> Some([originalContent |-> originalContent, newContent |-> newContent,
                  diffStat |-> calculateDiffStat(originalContent, newContent)])]

\* an invocation. shown is the baseline shouldConfirmExecute read for its
\* request; resolveCalls counts the calls of the request's onConfirm;
\* ioFailure is the phase in which a filesystem call failed
NoInvocation ==
  [created |-> FALSE, confirmCalls |-> 0, confirmReq |-> FALSE, outcome |-> "none",
   approved |-> FALSE, execCalls |-> 0, shown |-> Absent, resolveCalls |-> 0,
   ioFailure |-> "none"]
NoChild ==
  [state |-> "none", killed |-> FALSE, stubborn |-> FALSE, endless |-> FALSE,
   termSent |-> FALSE, killSent |-> FALSE, exitCode |-> "null", signal |-> "null"]
NoShell ==
  [aborted |-> FALSE, listener |-> FALSE, ownTimer |-> "none", graceTimer |-> "none",
   stdout |-> 0, stderr |-> 0]
NoSignals ==
  [caller |-> FALSE, timeout |-> FALSE, combined |-> FALSE,
   lCaller |-> FALSE, lTimeout |-> FALSE, firedAt |-> "never"]
NoCall == [api |-> "none", name |-> "none", params |-> <<>>]

ValIdle ==
  /\ vTool = "none"
  /\ vParams = <<>>
  /\ vError = NoError

\* no ShellToolInvocation has been created
TrustIdle == invocations = <<>>

\* no provider has been connected
NamesIdle ==
  /\ servers = {}
  /\ registry = <<>>
  /\ exposed = {}
  /\ connects = 0

\* executeToolCalls has not been called, no write_file call runs
\* (controller is the integration's AbortController; callStale tells that
\* the call in flight was given the signal of a controller that has been
\* replaced since)
NoBatch ==
  [state |-> "idle", calls |-> <<>>, dispatched |-> 0, responses |-> <<>>,
   controller |-> [aborted |-> FALSE], callStale |-> FALSE]
NoDiffCall == [called |-> FALSE]
\* (outcomes are the results of initialize's connectServer calls so far,
\* succeeded the names whose connect step has ever succeeded)
NoBridge == [phase |-> "new", outcomes |-> <<>>, succeeded |-> {}]
MultiIdle ==
  /\ batch = NoBatch
  /\ writers = <<>>
  /\ registerCalls = <<>>
  /\ diffCall = NoDiffCall
  /\ bridge = NoBridge

LifeIdle ==
  /\ call = NoCall
  /\ pc = "Idle"
  /\ sig = NoSignals
  /\ orchTimer = "none"
  /\ inv = NoInvocation
  /\ child = NoChild
  /\ sh = NoShell
  /\ mcpReq = "none"
  /\ effects = {}
  /\ toolResult = NoResult
  /\ finalResult = NoResult

\* after construction (and initialize): the workspace holds some files, the
\* bridge registry is empty or holds a provider's capability
Init ==
  /\ ValIdle
  /\ TrustIdle
  /\ NamesIdle
  /\ MultiIdle
  /\ LifeIdle
  /\ cfg \in [useSimpleMCP : BOOLEAN, mcpTools : {{}, {BridgedName}}]
  /\ fs \in { f \in [FsNodes -> {AbsentNode, DirNode, File(OldContent), LockedFile(OldContent)}] :
                f[NodeB] \in {AbsentNode} \cup
                            (IF f[NodeA] = DirNode THEN {File(OldContent)} ELSE {}) }

(***************************************************************************)
(* BaseDeclarativeTool.invoke, first part: validation, createInvocation    *)
(* and the call of shouldConfirmExecute, up to the first await.            *)
(***************************************************************************)
MCPValidate(params) ==
  IF ~params.isObject THEN "Parameters must be an object" ELSE NoError

validateToolParams(name, params) ==
  IF name = "write_file" THEN WriteFileValidate(params)
  ELSE IF name = "run_shell_command" THEN ShellValidate(params)
  ELSE MCPValidate(params)

\* what shouldConfirmExecute does: "request", "false", or "throw" when the
\* baseline read of write_file fails with something else than ENOENT
shouldConfirmExecute(name, params, f) ==
  IF name = "write_file"
  THEN LET r == ReadFile(f, PathResolve(WorkspaceRoot, params.file_path)) IN
       IF ~r.ok /\ r.code # "ENOENT" THEN "throw" ELSE "request"
  ELSE IF name = "run_shell_command"
  THEN IF ShellNeedsConfirm(params) THEN "request" ELSE "false"
  ELSE "false"

\* the baseline WriteFileToolInvocation.shouldConfirmExecute reads for the
\* diff of its request: the file's content, or the empty string for a file
\* that does not exist
confirmBaseline(name, params, f) ==
  IF name = "write_file"
  THEN LET r == ReadFile(f, PathResolve(WorkspaceRoot, params.file_path)) IN
       Some([originalContent |-> r.content, fileExists |-> r.ok])
  ELSE Absent

\* invoke from createInvocation on, up to its first await
invokeCreated(name, params, f) ==
  LET c == shouldConfirmExecute(name, params, f)
      created == [NoInvocation EXCEPT !.created = TRUE, !.confirmCalls = 1]
  IN IF c = "throw"
     THEN [inv |-> [created EXCEPT !.ioFailure = "confirmRead"],
           res |-> Thrown("read error"), pc |-> "Settled"]
     ELSE [inv |-> [created EXCEPT !.confirmReq = (c = "request"),
                                   !.shown = confirmBaseline(name, params, f)],
           res |-> NoResult, pc |-> "Confirming"]

\* invoke without its validation check
invokeUnchecked(name, params, f) == invokeCreated(name, params, f)

\* the state invoke leaves behind at its first await
invoke(name, params, f) ==
  IF validateToolParams(name, params) # NoError
  THEN [inv |-> NoInvocation, res |-> Thrown("Tool validation failed"),
        pc |-> "Settled"]
  ELSE invokeCreated(name, params, f)

\* requestUserConfirmation: prints the request and approves; the request's
\* onConfirm is not called
requestUserConfirmation == TRUE

\* ToolManager.callTool / mcpClient.callTool: the built-in registry first,
\* then the bridge registry; a name in neither is thrown
callToolStart(name, params, f) ==
  IF name \in BuiltinTools \/ name \in cfg.mcpTools
  THEN invoke(name, params, f)
  ELSE [inv |-> NoInvocation, res |-> Thrown("Tool not found"), pc |-> "Settled"]

\* a combination that only listens and does not look at signal.aborted
combineAbortSignalsListening(callerAborted) ==
  [NoSignals EXCEPT !.caller = callerAborted, !.lCaller = TRUE, !.lTimeout = TRUE]

\* ToolManager.combineAbortSignals([signal, timeoutController.signal]), the
\* timeout signal being fresh: an already-aborted caller signal aborts the
\* combined one at once, otherwise both get a listener
combineAbortSignals(callerAborted) ==
  IF callerAborted
  THEN [NoSignals EXCEPT !.caller = TRUE, !.combined = TRUE, !.firedAt = "Idle"]
  ELSE [NoSignals EXCEPT !.lCaller = TRUE, !.lTimeout = TRUE]

\* ToolManager.executeToolSafely up to its await of callTool
executeToolSafely ==
  /\ pc = "Idle"
  /\ \E name \in ToolNames, timerOn \in BOOLEAN :
     \E params \in ParamsOf(name) :
       LET r == callToolStart(name, params, fs) IN
       /\ call' = [api |-> "executeToolSafely", name |-> name, params |-> params]
       /\ orchTimer' = IF timerOn THEN "pending" ELSE "none"
       /\ sig' = combineAbortSignals(sig.caller)
       /\ inv' = r.inv
       /\ toolResult' = r.res
       /\ pc' = r.pc
  /\ UNCHANGED <<cfg, fs, child, sh, mcpReq, effects, finalResult>>
  /\ UNCHANGED <<valVars, trustVars, nameVars, multiVars>>

\* ToolManager.callTool called directly: the caller's signal is the tool's
callTool ==
  /\ pc = "Idle"
  /\ \E name \in ToolNames :
     \E params \in ParamsOf(name) :
       LET r == callToolStart(name, params, fs) IN
       /\ call' = [api |-> "callTool", name |-> name, params |-> params]
       /\ sig' = [NoSignals EXCEPT !.caller = sig.caller, !.combined = sig.caller,
                                   !.lCaller = ~sig.caller,
                                   !.firedAt = IF sig.caller THEN "Idle" ELSE "never"]
       /\ inv' = r.inv
       /\ toolResult' = r.res
       /\ pc' = r.pc
  /\ UNCHANGED <<cfg, fs, orchTimer, child, sh, mcpReq, effects, finalResult>>
  /\ UNCHANGED <<valVars, trustVars, nameVars, multiVars>>

\* invoke, after shouldConfirmExecute returned a request: the confirmation
invokeConfirm ==
  /\ pc = "Confirming"
  /\ inv.confirmReq
  /\ inv' = [inv EXCEPT !.approved = requestUserConfirmation]
  /\ pc' = "Approving"
  /\ UNCHANGED <<cfg, fs, call, sig, orchTimer, child, sh, mcpReq, effects,
                 toolResult, finalResult>>
  /\ UNCHANGED <<valVars, trustVars, nameVars, multiVars>>

\* another process changes, creates, deletes or locks the target file of a
\* write_file call between shouldConfirmExecute and execute
FileChanged ==
  /\ pc \in {"Confirming", "Approving"}
  /\ call.name = "write_file"
  /\ LET segs == PathResolve(WorkspaceRoot, call.params.file_path) IN
     /\ segs \in FsNodes
     /\ NodeOf(fs, Parent(segs)).kind = "dir"
     /\ NodeOf(fs, segs).kind # "dir"
     /\ ~NodeOf(fs, segs).locked
     /\ \E n \in {AbsentNode, File(OldContent), File(OtherContent),
                  LockedFile(OtherContent)} :
          /\ n # fs[segs]
          /\ fs' = [fs EXCEPT ![segs] = n]
  /\ UNCHANGED <<cfg, call, pc, sig, orchTimer, inv, child, sh, mcpReq, effects,
                 toolResult, finalResult>>
  /\ UNCHANGED <<valVars, trustVars, nameVars, multiVars>>

\* invoke is about to call execute (or to throw on a declined confirmation)
\* an invoke that does not wait for the confirmation
AtExecuteEarly == pc = "Confirming" \/ pc = "Approving"

\* invoke has reached `return invocation.execute(...)` or the throw before it
AtExecute == (pc = "Confirming" /\ ~inv.confirmReq) \/ pc = "Approving"
Declined == pc = "Approving" /\ ~inv.approved

(***************************************************************************)
(* Signals and the child process.                                          *)
(***************************************************************************)
\* ChildProcess.kill(signal): sending a signal to a live child succeeds and
\* sets child.killed; on a child that has exited it does nothing
ChildKill(ch, signal) ==
  IF ch.state = "running"
  THEN [ch EXCEPT !.killed = TRUE,
                  !.termSent = @ \/ signal = "SIGTERM",
                  !.killSent = @ \/ signal = "SIGKILL"]
  ELSE ch

\* executeCommand's abortHandler: SIGTERM now, and a timer for the grace period
abortHandlerChild(ch) == ChildKill(ch, "SIGTERM")
abortHandlerShell(shl) == [shl EXCEPT !.aborted = TRUE, !.graceTimer = "pending"]

\* the grace timer's callback, GracePeriod ms after the abort: SIGKILL unless
\* child.killed
graceCallback(ch) == IF ~ch.killed THEN ChildKill(ch, "SIGKILL") ELSE ch

\* the shell timeout's callback: SIGTERM
timeoutCallbackChild(ch) == ChildKill(ch, "SIGTERM")

\* abort() of the caller's or of the timeout controller's signal: the
\* listeners combineAbortSignals installed abort the combined signal, whose
\* abort event runs the abortHandler while it is registered
SignalAbort(which) ==
  LET listens == IF which = "caller" THEN sig.lCaller ELSE sig.lTimeout
      fires == listens /\ ~sig.combined
  IN /\ sig' = [sig EXCEPT ![which] = TRUE, !.combined = @ \/ listens,
                           !.firedAt = IF fires THEN pc ELSE @]
     /\ IF fires /\ sh.listener
        THEN /\ child' = abortHandlerChild(child)
             /\ sh' = abortHandlerShell(sh)
        ELSE UNCHANGED <<child, sh>>

\* the caller aborts its signal (AbortController.abort, cancelAllTools)
CallerAbort ==
  /\ ~sig.caller
  /\ SignalAbort("caller")
  /\ UNCHANGED <<cfg, fs, call, pc, orchTimer, inv, mcpReq, effects, toolResult,
                 finalResult>>
  /\ UNCHANGED <<valVars, trustVars, nameVars, multiVars>>

\* executeToolSafely's timer fires: timeoutController.abort(). A timer's
\* callback runs only when no code of the call runs: while the call waits
\* for the child or the provider, or after it has returned if the timer is
\* still armed then
OrchTimeout ==
  /\ orchTimer = "pending"
  /\ pc \in {"Running", "Done"}
  /\ orchTimer' = "fired"
  /\ SignalAbort("timeout")
  /\ UNCHANGED <<cfg, fs, call, pc, inv, mcpReq, effects, toolResult, finalResult>>
  /\ UNCHANGED <<valVars, trustVars, nameVars, multiVars>>

(***************************************************************************)
(* execute of the three kinds of invocation.                               *)
(***************************************************************************)
CancelledByUser == Thrown("Tool execution cancelled by user")

\* an execute that reports against the baseline its confirmation request showed
WriteFileExecuteShown(params, aborted, f) ==
  LET segs == PathResolve(WorkspaceRoot, params.file_path)
      r == ReadFile(f, segs)
      mk == IF params.create_directories /\ NodeOf(f, Parent(segs)).kind = "absent"
            THEN Mkdir(f, Parent(segs))
            ELSE [ok |-> TRUE, fs |-> f]
      w == WriteFile(mk.fs, segs, Value(params.content))
  IN IF aborted
     THEN [res |-> Thrown("Operation was cancelled"), fs |-> f, eff |-> {},
           io |-> "none"]
     ELSE IF ~r.ok /\ r.code # "ENOENT"
     THEN [res |-> Result("FILE_READ_ERROR", "Error"), fs |-> f, eff |-> {},
           io |-> "executeRead"]
     ELSE IF ~mk.ok \/ ~w.ok
     THEN [res |-> Result("FILE_WRITE_ERROR", "Error writing to file"), fs |-> mk.fs,
           eff |-> {}, io |-> "write"]
     ELSE [res |-> FileDiffResult(Value(inv.shown).originalContent,
                                  Value(params.content)),
           fs |-> w.fs, eff |-> {"write"}, io |-> "none"]

\* an execute that does not look at the signal
WriteFileExecuteUnchecked(params, aborted, f) ==
  LET segs == PathResolve(WorkspaceRoot, params.file_path)
      r == ReadFile(f, segs)
      mk == IF params.create_directories /\ NodeOf(f, Parent(segs)).kind = "absent"
            THEN Mkdir(f, Parent(segs))
            ELSE [ok |-> TRUE, fs |-> f]
      w == WriteFile(mk.fs, segs, Value(params.content))
  IN IF ~r.ok /\ r.code # "ENOENT"
     THEN [res |-> Result("FILE_READ_ERROR", "Error"), fs |-> f, eff |-> {},
           io |-> "executeRead"]
     ELSE IF ~mk.ok
     THEN [res |-> Result("FILE_WRITE_ERROR", "Error writing to file"), fs |-> f,
           eff |-> {}, io |-> "mkdir"]
     ELSE IF ~w.ok
     THEN [res |-> Result("FILE_WRITE_ERROR", "Error writing to file"), fs |-> mk.fs,
           eff |-> IF mk.fs # f THEN {"mkdir"} ELSE {}, io |-> "write"]
     ELSE [res |-> FileDiffResult(r.content, Value(params.content)), fs |-> w.fs,
           eff |-> {"write"} \cup (IF mk.fs # f THEN {"mkdir"} ELSE {}),
           io |-> "none"]

\* WriteFileToolInvocation.execute, synchronous from start to end. The
\* baseline is read again; io names the filesystem call that failed
WriteFileExecute(params, aborted, f) ==
  LET segs == PathResolve(WorkspaceRoot, params.file_path)
      r == ReadFile(f, segs)
      mk == IF params.create_directories /\ NodeOf(f, Parent(segs)).kind = "absent"
            THEN Mkdir(f, Parent(segs))
            ELSE [ok |-> TRUE, fs |-> f]
      w == WriteFile(mk.fs, segs, Value(params.content))
  IN IF aborted
     THEN [res |-> Thrown("Operation was cancelled"), fs |-> f, eff |-> {},
           io |-> "none"]
     ELSE IF ~r.ok /\ r.code # "ENOENT"
     THEN [res |-> Result("FILE_READ_ERROR", "Error"), fs |-> f, eff |-> {},
           io |-> "executeRead"]
     ELSE IF ~mk.ok
     THEN [res |-> Result("FILE_WRITE_ERROR", "Error writing to file"), fs |-> f,
           eff |-> {}, io |-> "mkdir"]
     ELSE IF ~w.ok
     THEN [res |-> Result("FILE_WRITE_ERROR", "Error writing to file"), fs |-> mk.fs,
           eff |-> IF mk.fs # f THEN {"mkdir"} ELSE {}, io |-> "write"]
     ELSE [res |-> FileDiffResult(r.content, Value(params.content)), fs |-> w.fs,
           eff |-> {"write"} \cup (IF mk.fs # f THEN {"mkdir"} ELSE {}),
           io |-> "none"]

ExecuteWriteFile ==
  /\ AtExecute
  /\ call.name = "write_file"
  /\ IF Declined
     THEN /\ toolResult' = CancelledByUser
          /\ UNCHANGED <<inv, fs, effects>>
     ELSE LET r == WriteFileExecute(call.params, sig.combined, fs) IN
          /\ inv' = [inv EXCEPT !.execCalls = @ + 1, !.ioFailure = r.io]
          /\ toolResult' = r.res
          /\ fs' = r.fs
          /\ effects' = effects \cup r.eff
  /\ pc' = "Settled"
  /\ UNCHANGED <<cfg, call, sig, orchTimer, child, sh, mcpReq, finalResult>>
  /\ UNCHANGED <<valVars, trustVars, nameVars, multiVars>>

\* ShellToolInvocation.execute up to its await of executeCommand: a fired
\* signal gives a result at once; otherwise the child is spawned, the
\* abort listener registered and the shell timeout armed. A working
\* directory that does not exist makes spawn fail with an 'error' event
ExecuteShell ==
  /\ AtExecute
  /\ call.name = "run_shell_command"
  /\ IF Declined
     THEN /\ toolResult' = CancelledByUser
          /\ pc' = "Settled"
          /\ UNCHANGED <<inv, child, sh, effects>>
     ELSE /\ inv' = [inv EXCEPT !.execCalls = @ + 1]
          /\ IF sig.combined
             THEN /\ toolResult' = Result("", "Command cancelled")
                  /\ pc' = "Settled"
                  /\ UNCHANGED <<child, sh, effects>>
             ELSE IF NodeOf(fs, ShellCwd(call.params)).kind # "dir"
             THEN /\ toolResult' = Result("", "Error: stderr")
                  /\ child' = [NoChild EXCEPT !.state = "spawnFailed"]
                  /\ pc' = "Settled"
                  /\ UNCHANGED <<sh, effects>>
             ELSE /\ \E stubborn \in BOOLEAN, endless \in BOOLEAN :
                       child' = [NoChild EXCEPT !.state = "running",
                                                !.stubborn = stubborn,
                                                !.endless = endless]
                  /\ sh' = [NoShell EXCEPT !.listener = TRUE, !.ownTimer = "pending"]
                  /\ effects' = effects \cup {"spawn"}
                  /\ pc' = "Running"
                  /\ UNCHANGED toolResult
  /\ UNCHANGED <<cfg, fs, call, sig, orchTimer, mcpReq, finalResult>>
  /\ UNCHANGED <<valVars, trustVars, nameVars, multiVars>>

\* MCPToolInvocation.execute / SimpleMCPToolInvocation.execute
ExecuteMCP ==
  /\ AtExecute
  /\ call.name = BridgedName
  /\ inv' = [inv EXCEPT !.execCalls = @ + 1]
  /\ IF sig.combined
     THEN /\ toolResult' = Thrown("Operation was cancelled")
          /\ pc' = "Settled"
          /\ UNCHANGED <<mcpReq, effects>>
     ELSE IF cfg.useSimpleMCP
     THEN /\ toolResult' = Result("", "placeholder")
          /\ pc' = "Settled"
          /\ UNCHANGED <<mcpReq, effects>>
     ELSE /\ mcpReq' = "inflight"
          /\ effects' = effects \cup {"request"}
          /\ pc' = "Running"
          /\ UNCHANGED toolResult
  /\ UNCHANGED <<cfg, fs, call, sig, orchTimer, child, sh, finalResult>>
  /\ UNCHANGED <<valVars, trustVars, nameVars, multiVars>>

(***************************************************************************)
(* Events while execute waits.                                             *)
(***************************************************************************)
\* a chunk on the child's stdout or stderr: appended to the buffer (and
\* passed to updateOutput)
ChildData ==
  /\ pc = "Running"
  /\ child.state = "running"
  /\ \E stream \in {"stdout", "stderr"} :
       /\ sh[stream] < MaxChunks
       /\ sh' = [sh EXCEPT ![stream] = @ + 1]
  /\ UNCHANGED <<cfg, fs, call, pc, sig, orchTimer, inv, child, mcpReq, effects,
                 toolResult, finalResult>>
  /\ UNCHANGED <<valVars, trustVars, nameVars, multiVars>>

\* how a running child can end: by itself unless it runs forever, by SIGTERM
\* unless it ignores it, by SIGKILL always
ChildEndings(ch) ==
  (IF ~ch.endless THEN {[exitCode |-> "0", signal |-> "null"],
                        [exitCode |-> "1", signal |-> "null"]} ELSE {})
  \cup (IF ch.termSent /\ ~ch.stubborn
        THEN {[exitCode |-> "null", signal |-> "SIGTERM"]} ELSE {})
  \cup (IF ch.killSent THEN {[exitCode |-> "null", signal |-> "SIGKILL"]} ELSE {})

\* a display that looks at the exit code before the output
ShellDisplayExitFirst(aborted, stdout, stderr, exitCode) ==
  IF aborted THEN "Command cancelled by user"
  ELSE IF exitCode # "0" THEN "Command exited with code"
  ELSE IF stdout > 0 THEN "stdout"
  ELSE IF stderr > 0 THEN "Error: stderr"
  ELSE "Command completed successfully"

\* ShellToolInvocation.execute: the display of a finished command (stdout and
\* stderr are the trimmed outputs the 'close' handler resolved with)
ShellDisplay(aborted, stdout, stderr, exitCode) ==
  IF aborted THEN "Command cancelled by user"
  ELSE IF stdout > 0 THEN "stdout"
  ELSE IF stderr > 0 THEN "Error: stderr"
  ELSE IF exitCode # "0" THEN "Command exited with code"
  ELSE "Command completed successfully"

\* the child's 'close' event: the promise resolves, the shell timeout is
\* cleared, the abort listener removed; execute returns its result
ChildClose ==
  /\ pc = "Running"
  /\ child.state = "running"
  /\ \E e \in ChildEndings(child) :
       /\ child' = [child EXCEPT !.state = "exited", !.exitCode = e.exitCode,
                                 !.signal = e.signal]
       /\ toolResult' =
            Result("", ShellDisplay(sh.aborted, sh.stdout, sh.stderr, e.exitCode))
  /\ sh' = [sh EXCEPT !.listener = FALSE,
                      !.ownTimer = IF @ = "pending" THEN "cleared" ELSE @]
  /\ pc' = "Settled"
  /\ UNCHANGED <<cfg, fs, call, sig, orchTimer, inv, mcpReq, effects, finalResult>>
  /\ UNCHANGED <<valVars, trustVars, nameVars, multiVars>>

\* the shell timeout elapses: aborted = true, SIGTERM
ShellTimeout ==
  /\ pc = "Running"
  /\ sh.ownTimer = "pending"
  /\ sh' = [sh EXCEPT !.ownTimer = "fired", !.aborted = TRUE]
  /\ child' = timeoutCallbackChild(child)
  /\ UNCHANGED <<cfg, fs, call, pc, sig, orchTimer, inv, mcpReq, effects, toolResult,
                 finalResult>>
  /\ UNCHANGED <<valVars, trustVars, nameVars, multiVars>>

\* the grace period after an abort ends (the timer is never cleared, so it
\* may also run after the call is over)
GraceTimeout ==
  /\ pc \in {"Running", "Done"}
  /\ sh.graceTimer = "pending"
  /\ sh' = [sh EXCEPT !.graceTimer = "fired"]
  /\ child' = graceCallback(child)
  /\ UNCHANGED <<cfg, fs, call, pc, sig, orchTimer, inv, mcpReq, effects, toolResult,
                 finalResult>>
  /\ UNCHANGED <<valVars, trustVars, nameVars, multiVars>>

\* the provider answers the tools/call request
ProviderAnswer ==
  /\ pc = "Running"
  /\ mcpReq = "inflight"
  /\ mcpReq' = "answered"
  /\ toolResult' = Result("", "content")
  /\ pc' = "Settled"
  /\ UNCHANGED <<cfg, fs, call, sig, orchTimer, inv, child, sh, effects, finalResult>>
  /\ UNCHANGED <<valVars, trustVars, nameVars, multiVars>>

\* messages the provider's request may be rejected with
ProviderErrors == {"Connection closed", "Request timed out"}

\* a tools/call that lets the provider's error through
ProviderErrorPropagated ==
  /\ pc = "Running"
  /\ mcpReq = "inflight"
  /\ \E message \in ProviderErrors :
       /\ mcpReq' = message
       /\ toolResult' = Thrown(message)
  /\ pc' = "Settled"
  /\ UNCHANGED <<cfg, fs, call, sig, orchTimer, inv, child, sh, effects, finalResult>>
  /\ UNCHANGED <<valVars, trustVars, nameVars, multiVars>>

\* the request is rejected (mcpReq becomes the message): execute catches
\* the error and returns it as an MCP_TOOL_ERROR entry
ProviderError ==
  /\ pc = "Running"
  /\ mcpReq = "inflight"
  /\ \E message \in ProviderErrors :
       /\ mcpReq' = message
       /\ toolResult' = ErrorResult("MCP_TOOL_ERROR", "MCP tool error", message)
  /\ pc' = "Settled"
  /\ UNCHANGED <<cfg, fs, call, sig, orchTimer, inv, child, sh, effects, finalResult>>
  /\ UNCHANGED <<valVars, trustVars, nameVars, multiVars>>

(***************************************************************************)
(* The entry point's promise settles.                                      *)
(***************************************************************************)
CancelledResult == Result("EXECUTION_CANCELLED", "Operation cancelled")

\* executeToolSafely after its await: a result is returned; a thrown error
\* becomes the cancelled result when the combined signal has fired and is
\* thrown on otherwise. The timer is cleared on both paths
SafelyOutcome(res, combinedAborted) ==
  IF res.kind = "result" THEN res
  ELSE IF combinedAborted THEN CancelledResult
  ELSE res

\* an executeToolSafely that returns without clearTimeout
executeToolSafelySettleLeaky ==
  /\ pc = "Settled"
  /\ call.api = "executeToolSafely"
  /\ finalResult' = SafelyOutcome(toolResult, sig.combined)
  /\ pc' = "Done"
  /\ UNCHANGED <<cfg, fs, call, sig, orchTimer, inv, child, sh, mcpReq, effects,
                 toolResult>>
  /\ UNCHANGED <<valVars, trustVars, nameVars, multiVars>>

executeToolSafelySettle ==
  /\ pc = "Settled"
  /\ call.api = "executeToolSafely"
  /\ orchTimer' = IF orchTimer = "pending" THEN "cleared" ELSE orchTimer
  /\ finalResult' = SafelyOutcome(toolResult, sig.combined)
  /\ pc' = "Done"
  /\ UNCHANGED <<cfg, fs, call, sig, inv, child, sh, mcpReq, effects, toolResult>>
  /\ UNCHANGED <<valVars, trustVars, nameVars, multiVars>>

callToolSettle ==
  /\ pc = "Settled"
  /\ call.api = "callTool"
  /\ finalResult' = toolResult
  /\ pc' = "Done"
  /\ UNCHANGED <<cfg, fs, call, sig, orchTimer, inv, child, sh, mcpReq, effects,
                 toolResult>>
  /\ UNCHANGED <<valVars, trustVars, nameVars, multiVars>>

Next ==
  \/ executeToolSafely
  \/ callTool
  \/ invokeConfirm
  \/ FileChanged
  \/ ExecuteWriteFile
  \/ ExecuteShell
  \/ ExecuteMCP
  \/ CallerAbort
  \/ OrchTimeout
  \/ ChildData
  \/ ChildClose
  \/ ShellTimeout
  \/ GraceTimeout
  \/ ProviderAnswer
  \/ ProviderError
  \/ executeToolSafelySettle
  \/ callToolSettle

Spec == Init /\ [][Next]_vars

(***************************************************************************)
(* Properties of a call.                                                   *)
(***************************************************************************)
Registered == call.name \in BuiltinTools \/ call.name \in cfg.mcpTools
Dispatched == pc # "Idle"
FiredBeforeCompletion == sig.firedAt \in {"Idle", "Confirming", "Approving", "Running"}

\* C1: whenever validateToolParams returns a message, invoke fails with the
\* validation error and nothing else happens: no invocation is created,
\* shouldConfirmExecute and execute are never called, no file is written,
\* no directory created, no process spawned, no request sent.
C1_ValidationGate ==
  (Dispatched /\ Registered /\ validateToolParams(call.name, call.params) # NoError) =>
    /\ toolResult = Thrown("Tool validation failed")
    /\ ~inv.created
    /\ inv.confirmCalls = 0
    /\ inv.execCalls = 0
    /\ effects = {}
    /\ child.state = "none"
    /\ mcpReq = "none"

\* a call of write_file with invalid parameters has run to its end
C1_Witness ==
  /\ pc = "Done"
  /\ call.name = "write_file"
  /\ validateToolParams(call.name, call.params) # NoError
  /\ finalResult.kind = "throw"

\* C2: when shouldConfirmExecute returned a request, execute does not start
\* and nothing is written, created or spawned before the request has been
\* resolved with Proceed or ProceedAlways; after Cancel nothing happens.
C2_ConfirmationGate ==
  inv.confirmReq =>
    /\ (inv.execCalls > 0 \/ effects # {}) => inv.outcome \in {"Proceed", "ProceedAlways"}
    /\ inv.outcome = "Cancel" => (inv.execCalls = 0 /\ effects = {})

\* C3: executeToolSafely resolves to a ToolResult for every registered name,
\* whatever the parameters and the confirmation outcome; it rejects only
\* for a name registered nowhere.
C3_UniformOutcome ==
  (pc = "Done" /\ call.api = "executeToolSafely" /\ Registered) =>
    finalResult.kind = "result"

\* C4: when the caller's token or the timeout token fired before the action
\* completed, executeToolSafely resolves to the EXECUTION_CANCELLED result;
\* it neither rejects nor returns a result without an error entry.
C4_CancelledOutcome ==
  (pc = "Done" /\ call.api = "executeToolSafely" /\ Registered
   /\ FiredBeforeCompletion) =>
    finalResult = CancelledResult

\* the steps that can bring a dispatched call nearer to its end: all but
\* the caller's abort and the child's output
ResolvingStep ==
  \/ invokeConfirm
  \/ ExecuteWriteFile \/ ExecuteShell \/ ExecuteMCP
  \/ OrchTimeout \/ ChildClose \/ ShellTimeout \/ GraceTimeout
  \/ ProviderAnswer \/ ProviderError
  \/ executeToolSafelySettle \/ callToolSettle

\* C5: once the caller's token or the timeout token has fired, an
\* executeToolSafely call never hangs: as long as it has not resolved, a
\* step that brings it nearer to resolving can still happen (a pending
\* timer, the child's exit, the provider's answer), also when the child
\* ignores SIGTERM.
C5_NeverHangs ==
  (call.api = "executeToolSafely" /\ sig.combined /\ pc # "Done") =>
    ENABLED ResolvingStep

\* C6: for a name in neither registry callTool and executeToolSafely reject,
\* in every state of the cancellation token and before any side effect.
C6_UnknownNameThrows ==
  (Dispatched /\ ~Registered) =>
    /\ effects = {} /\ ~inv.created
    /\ pc = "Done" => finalResult.kind = "throw"

\* C9: when the token fires while the child runs, the child is sent SIGTERM,
\* and if it has not exited when the grace period ends it is sent SIGKILL;
\* a child that exited within the grace period is not sent SIGKILL.
C9_SignalEscalation ==
  /\ sh.graceTimer # "none" => child.termSent
  /\ (sh.graceTimer = "fired" /\ child.state = "running") => child.killSent
  /\ (child.state = "exited" /\ child.signal # "SIGKILL") => ~child.killSent

\* C10: when the shell timeout elapses on a command that ignores SIGTERM,
\* the child is killed by force within the grace window (SIGKILL has been
\* sent, or a grace timer is armed to send it) and the call resolves with
\* aborted = true.
C10_TimeoutKills ==
  /\ (sh.ownTimer = "fired" /\ child.state = "running" /\ child.stubborn) =>
       (child.killSent \/ sh.graceTimer = "pending")
  /\ (sh.ownTimer = "fired" /\ child.state = "exited") =>
       toolResult.display = "Command cancelled by user"

\* the target of a write_file call, resolved
TargetSegs == PathResolve(WorkspaceRoot, call.params.file_path)

\* C11: a read or write I/O failure of a write_file call is never thrown:
\* in whichever phase of invoke a filesystem call fails (the read for the
\* confirmation, the read in execute, the directory creation, the write),
\* the call gives a ToolResult with error kind FILE_READ_ERROR or
\* FILE_WRITE_ERROR.
C11_IOFailureCaptured ==
  (call.name = "write_file" /\ inv.ioFailure # "none") =>
    /\ toolResult.kind = "result"
    /\ toolResult.errType =
         (IF inv.ioFailure \in {"confirmRead", "executeRead"}
          THEN "FILE_READ_ERROR" ELSE "FILE_WRITE_ERROR")

\* C12: a spawn-level failure of run_shell_command (interpreter not found,
\* working directory missing) gives a ToolResult with error kind
\* SHELL_EXECUTION_ERROR: it is not thrown and not reported as a result
\* without an error entry.
C12_SpawnFailureCaptured ==
  child.state = "spawnFailed" =>
    /\ toolResult.kind = "result"
    /\ toolResult.errType = "SHELL_EXECUTION_ERROR"

\* C13: a confirmation request returned by shouldConfirmExecute is consumed
\* exactly once: its callback is called at most once, and it has been called
\* once when execute starts.
C13_ConsumedOnce ==
  inv.confirmReq =>
    /\ inv.resolveCalls <= 1
    /\ inv.execCalls > 0 => inv.resolveCalls = 1

\* AIToolsIntegration.executeToolCalls, for one call: a result is reported
\* with success = !result.error, a thrown error as TOOL_EXECUTION_ERROR
AIToolResponse(res) ==
  IF res.kind = "throw"
  THEN [result |-> Result("TOOL_EXECUTION_ERROR", "Error"), success |-> FALSE]
  ELSE [result |-> res, success |-> res.errType = ""]

\* the error kinds of failed executions
ExecutionFailureKinds ==
  {"FILE_READ_ERROR", "FILE_WRITE_ERROR", "SHELL_EXECUTION_ERROR", "MCP_TOOL_ERROR",
   "TOOL_EXECUTION_ERROR"}

\* execute was called and the call was cut short: the token had fired
\* before execute started, or executeCommand set its aborted flag (abort
\* handler or shell timeout)
CutShort ==
  /\ inv.execCalls > 0
  /\ sig.firedAt \in {"Idle", "Confirming", "Approving"} \/ sh.aborted

\* C16: a tool call cut short by cancellation or by a timeout yields a
\* ToolResult with an error entry, so that executeToolCalls reports
\* success = false, and its error kind is none of the kinds of failed
\* executions.
C16_CutShortIsFailure ==
  (pc = "Done" /\ call.api = "executeToolSafely" /\ CutShort) =>
    LET r == AIToolResponse(finalResult) IN
    /\ ~r.success
    /\ r.result.errType \notin ExecutionFailureKinds

\* a write_file call returned a result without an error
WriteSucceeded ==
  /\ pc \in {"Settled", "Done"}
  /\ call.name = "write_file"
  /\ toolResult.kind = "result"
  /\ toolResult.errType = ""

\* C19: after a write_file call that returns a result without an error the
\* target file holds exactly the content parameter, the result displays a
\* FileDiff whose newContent is that content, and a one-line content
\* written where no content was before reports additions = 1, deletions = 0.
C19_WholeFileReplace ==
  WriteSucceeded =>
    LET content == Value(call.params.content)
        d == Value(toolResult.diff)
    IN /\ fs[TargetSegs] = File(content)
       /\ IsPresent(toolResult.diff)
       /\ d.newContent = content
       /\ (d.originalContent = <<>> /\ Len(content) = 1) =>
            (d.diffStat.additions = 1 /\ d.diffStat.deletions = 0)

\* one line was written to a file that did not exist
C19_Witness ==
  /\ WriteSucceeded
  /\ ~Value(inv.shown).fileExists
  /\ Value(toolResult.diff).originalContent = <<>>
  /\ Len(Value(call.params.content)) = 1
  /\ fs[TargetSegs] = File(Value(call.params.content))

\* execute of write_file runs on a target that is not what the confirmation
\* read showed, and that can be read (or is absent) and written
ExecuteAfterChange ==
  /\ AtExecute
  /\ call.name = "write_file"
  /\ ~sig.combined
  /\ LET n == NodeOf(fs, TargetSegs) IN
     /\ ~n.locked
     /\ Value(inv.shown) # [originalContent |-> n.content, fileExists |-> n.kind = "file"]

\* C20: when the target was changed, created or deleted between the
\* confirmation read and the execution read, write_file still writes, and
\* the originalContent and the addition/deletion counts of its result are
\* those against the content found at execution time.
C20_ExecutionBaseline ==
  [][(ExecuteAfterChange /\ pc' = "Settled") =>
       LET before == NodeOf(fs, TargetSegs).content
           content == Value(call.params.content)
       IN /\ toolResult'.errType = ""
          /\ fs'[TargetSegs] = File(content)
          /\ toolResult'.diff =
               Some([originalContent |-> before, newContent |-> content,
                     diffStat |-> calculateDiffStat(before, content)])]_vars

\* a write whose result reports another baseline than the confirmation showed
C20_Witness ==
  /\ WriteSucceeded
  /\ Value(toolResult.diff).originalContent # Value(inv.shown).originalContent
  /\ Value(toolResult.diff).diffStat.deletions > 0

\* a shell command whose child has closed
ShellCompleted == call.name = "run_shell_command" /\ child.state = "exited"

\* C21: the display of a completed shell call follows the precedence aborted,
\* then non-empty stdout, then non-empty stderr, then a non-zero exit code,
\* then the success message; a command that exits by itself with code 1 and
\* no output shows the exit-code message and was not aborted
C21_DisplayPrecedence ==
  ShellCompleted =>
    /\ toolResult.kind = "result"
    /\ toolResult.errType = ""
    /\ sh.aborted => toolResult.display = "Command cancelled by user"
    /\ (~sh.aborted /\ sh.stdout > 0) => toolResult.display = "stdout"
    /\ (~sh.aborted /\ sh.stdout = 0 /\ sh.stderr > 0) =>
         toolResult.display = "Error: stderr"
    /\ (~sh.aborted /\ sh.stdout = 0 /\ sh.stderr = 0 /\ child.exitCode # "0") =>
         toolResult.display = "Command exited with code"
    /\ (~sh.aborted /\ sh.stdout = 0 /\ sh.stderr = 0 /\ child.exitCode = "0") =>
         toolResult.display = "Command completed successfully"
    /\ (child.exitCode = "1" /\ child.signal = "null" /\ ~child.termSent
          /\ ~child.killSent /\ sh.stdout = 0 /\ sh.stderr = 0) =>
         /\ ~sh.aborted
         /\ toolResult.display = "Command exited with code"

\* a command exited by itself with code 1 and no output
C21_Witness ==
  /\ ShellCompleted
  /\ child.exitCode = "1"
  /\ ~child.termSent
  /\ sh.stdout = 0
  /\ sh.stderr = 0
  /\ ~sh.aborted
  /\ toolResult.display = "Command exited with code"

\* C26: a provider error during a bridged call is never propagated: when
\* the provider's call fails, execute resolves to a ToolResult whose error
\* kind is MCP_TOOL_ERROR and whose message is the provider's message
C26_ProviderErrorCaptured ==
  mcpReq \in ProviderErrors =>
    /\ toolResult.kind = "result"
    /\ toolResult.errType = "MCP_TOOL_ERROR"
    /\ toolResult.message = mcpReq
    /\ pc = "Done" => finalResult = toolResult

\* the provider's request was rejected and the call has returned
C26_Witness ==
  /\ mcpReq = "Connection closed"
  /\ pc = "Done"
  /\ finalResult.errType = "MCP_TOOL_ERROR"
  /\ finalResult.message = "Connection closed"

\* C28: in every state of an executeToolSafely call the combined signal has
\* fired if and only if the caller's signal or the timeout signal has
\* fired, also when the caller's signal had fired before the call started
C28_ComposedToken ==
  call.api = "executeToolSafely" =>
    /\ sig.combined <=> (sig.caller \/ sig.timeout)
    /\ sig.timeout <=> orchTimer = "fired"

\* the caller's signal had fired before the call started
C28_Witness ==
  /\ call.api = "executeToolSafely"
  /\ sig.firedAt = "Idle"
  /\ sig.caller
  /\ ~sig.timeout
  /\ sig.combined

\* the position of a call: not started, waiting at the await of
\* shouldConfirmExecute, waiting for the confirmation, execute waiting for
\* the child or the provider, invoke settled, the call returned
PhaseRank(p) ==
  CASE p = "Idle" -> 0
    [] p = "Confirming" -> 1
    [] p = "Approving" -> 2
    [] p = "Running" -> 3
    [] p = "Settled" -> 4
    [] p = "Done" -> 5

DispatchedFired == call.api # "none" /\ sig.caller /\ sig.firedAt = "Idle"

\* C31: a call dispatched with a cancellation token that has already fired
\* performs no side effect: no file written, no directory created, no
\* process spawned, no request sent to a provider
C31_FiredTokenNoEffect ==
  DispatchedFired =>
    /\ sig.combined
    /\ effects = {}
    /\ child.state = "none"
    /\ mcpReq = "none"

\* write_file was dispatched with a fired signal on valid parameters, its
\* execute was called and threw, and the call has returned
C31_Witness ==
  /\ DispatchedFired
  /\ call.name = "write_file"
  /\ inv.execCalls = 1
  /\ pc = "Done"
  /\ effects = {}

\* C33: every executeToolSafely call that resolves or rejects has cancelled
\* its timeout timer before, on the success path and on the failure path,
\* and the timeout source of a finished call never fires afterwards
C33_TimerHygiene ==
  [][ (call'.api = "executeToolSafely" /\ pc' = "Done") =>
        /\ orchTimer' \in {"none", "cleared", "fired"}
        /\ pc = "Done" => (orchTimer' = orchTimer /\ sig'.timeout = sig.timeout) ]_vars

\* a call has rejected (its parameters were invalid) with its timer cleared
C33_Witness ==
  /\ call.api = "executeToolSafely"
  /\ pc = "Done"
  /\ finalResult.kind = "throw"
  /\ orchTimer = "cleared"

(***************************************************************************)
(* The validators called on their own, over every parameter string.        *)
(***************************************************************************)
\* parameter values a caller may pass
TimeoutValues == {0, 100, 999, 1000, 30000, 300000, 300001}
ContentValues == {<<>>, <<"a">>}

\* a validation of write_file that truncates the target to probe it
ValidateWriteFileTouching ==
  /\ vTool = "none"
  /\ \E fp \in PathStrings, c \in {Absent} \cup {Some(x) : x \in ContentValues} :
       LET params == [file_path |-> fp, content |-> c] IN
       /\ vTool' = "write_file"
       /\ vParams' = params
       /\ vError' = WriteFileValidate(params)
       /\ fs' = WriteFile(fs, PathResolve(WorkspaceRoot, fp), <<>>).fs
  /\ UNCHANGED <<cfg, call, pc, sig, orchTimer, inv, child, sh, mcpReq, effects,
                 toolResult, finalResult>>
  /\ UNCHANGED <<trustVars, nameVars, multiVars>>

\* a caller hands write_file parameters to validateToolParams
ValidateWriteFile ==
  /\ vTool = "none"
  /\ \E fp \in PathStrings, c \in {Absent} \cup {Some(x) : x \in ContentValues} :
       LET params == [file_path |-> fp, content |-> c] IN
       /\ vTool' = "write_file"
       /\ vParams' = params
       /\ vError' = WriteFileValidate(params)
  /\ UNCHANGED <<lifeVars, trustVars, nameVars, multiVars>>

\* a caller hands run_shell_command parameters to validateToolParams
ValidateShell ==
  /\ vTool = "none"
  /\ \E cmd \in {<<>>, <<" ">>, <<"l", "s">>},
        dir \in PathStrings,
        t \in {Absent} \cup {Some(x) : x \in TimeoutValues} :
       LET params == [command |-> cmd, directory |-> dir, timeout |-> t] IN
       /\ vTool' = "run_shell_command"
       /\ vParams' = params
       /\ vError' = ShellValidate(params)
  /\ UNCHANGED <<lifeVars, trustVars, nameVars, multiVars>>

\* a caller hands parameters to the validateToolParams of a bridged tool
ValidateMCP ==
  /\ vTool = "none"
  /\ \E params \in McpParams :
       /\ vTool' = BridgedName
       /\ vParams' = params
       /\ vError' = MCPValidate(params)
  /\ UNCHANGED <<lifeVars, trustVars, nameVars, multiVars>>

\* the validators are called in a workspace that holds a directory and a
\* file, with a
\* bridged tool registered and a shell invocation alive
ValInit ==
  /\ ValIdle
  /\ NamesIdle
  /\ MultiIdle
  /\ LifeIdle
  /\ invocations = <<NewShellInvocation(<<"x">>)>>
  /\ cfg = [useSimpleMCP |-> TRUE, mcpTools |-> {BridgedName}]
  /\ fs = [n \in FsNodes |-> IF n = NodeA THEN DirNode ELSE File(OldContent)]

ValNext == ValidateWriteFile \/ ValidateShell \/ ValidateMCP

SpecVal == ValInit /\ [][ValNext]_vars

\* C7: write_file validation rejects every target path equal to the
\* workspace root or resolving outside it, and accepts every absolute path
\* strictly inside the root (content given), whatever its segments' names.
C7_PathContainment ==
  (vTool = "write_file" /\ IsAbsolute(vParams.file_path)) =>
    LET segs == PathResolve(WorkspaceRoot, vParams.file_path) IN
    /\ ~StrictlyInside(segs) => vError # NoError
    /\ (StrictlyInside(segs) /\ IsPresent(vParams.content)) => vError = NoError

\* C8: run_shell_command validation accepts a directory parameter exactly
\* when it resolves strictly inside the workspace root (the rule of
\* write_file), so every accepted working directory lies within the root.
C8_DirContainment ==
  (vTool = "run_shell_command" /\ vParams.directory # <<>>
   /\ Trim(vParams.command) # <<>> /\ ~IsPresent(vParams.timeout)) =>
    /\ (vError = NoError) <=> StrictlyInside(PathResolve(WorkspaceRoot, vParams.directory))
    /\ vError = NoError => IsPrefix(RootSegs, ShellCwd(vParams))

\* C18: validation is pure: a call of validateToolParams of write_file,
\* run_shell_command or a bridged tool, with valid or invalid input, leaves
\* the filesystem, the processes, the registries and the invocations'
\* allow-sets as they were.
C18_ValidationPure ==
  [][vTool' # vTool =>
       /\ fs' = fs
       /\ child' = child
       /\ effects' = effects
       /\ cfg' = cfg
       /\ registry' = registry
       /\ invocations' = invocations]_vars

\* an invalid and a valid input have been validated, in a workspace that
\* holds a file
C18_Witness ==
  /\ vTool = "write_file"
  /\ vParams.file_path = <<"/", "w", "/", "w", "/", "w">>
  /\ vError # NoError
  /\ fs[NodeB] = File(OldContent)
  /\ invocations # <<>>

\* a timeout inside the documented range
InTimeoutRange(t) == t >= MinTimeout /\ t <= MaxTimeout

\* C22: a run_shell_command that passes validation runs with an effective
\* timeout between 1000 ms and 300000 ms, 30000 ms when the parameter is
\* absent; every timeout outside the range, 0 included, is rejected
C22_TimeoutBound ==
  vTool = "run_shell_command" =>
    /\ vError = NoError =>
         /\ InTimeoutRange(EffectiveTimeout(vParams))
         /\ ~IsPresent(vParams.timeout) => EffectiveTimeout(vParams) = DefaultTimeout
    /\ (IsPresent(vParams.timeout) /\ ~InTimeoutRange(Value(vParams.timeout))) =>
         vError # NoError

(***************************************************************************)
(* Shell invocations and their trust state: any number of invocation       *)
(* objects, created, asked and answered in any order.                      *)
(***************************************************************************)
\* most invocation objects, and most calls of shouldConfirmExecute on one
MaxInvocations == 2
MaxConfirmCalls == 2

\* commands of the calls: two spellings with the root token "x", one with
\* "y", one in the static allow-set, and that one piped into "x"
TrustCommands ==
  { <<"l", "s">>, <<"x">>, <<" ", "x", " ", "l", "s">>, <<"y">>,
    <<"l", "s", " ", "|", " ", "x">> }

\* ShellTool.createInvocation: a new ShellToolInvocation
createInvocation ==
  /\ Len(invocations) < MaxInvocations
  /\ \E command \in TrustCommands :
       invocations' = Append(invocations, NewShellInvocation(command))
  /\ UNCHANGED <<lifeVars, valVars, nameVars, multiVars>>

\* shouldConfirmExecute is called on an invocation
ShouldConfirm ==
  /\ \E k \in DOMAIN invocations :
       LET c == shouldConfirmShell(invocations[k]) IN
       /\ invocations[k].confirmCalls < MaxConfirmCalls
       /\ invocations' =
            [invocations EXCEPT ![k].confirmCalls = @ + 1,
                                ![k].lastConfirm = c,
                                ![k].requested = @ \/ c = "request"]
  /\ UNCHANGED <<lifeVars, valVars, nameVars, multiVars>>

\* the confirming party calls the onConfirm of a request it was given
Resolve ==
  /\ \E k \in DOMAIN invocations, outcome \in Outcomes :
       /\ invocations[k].requested
       /\ invocations' = onConfirm(invocations, k, outcome)
  /\ UNCHANGED <<lifeVars, valVars, nameVars, multiVars>>

TrustInit ==
  /\ ValIdle
  /\ TrustIdle
  /\ NamesIdle
  /\ MultiIdle
  /\ LifeIdle
  /\ cfg = [useSimpleMCP |-> TRUE, mcpTools |-> {}]
  /\ fs = [n \in FsNodes |-> AbsentNode]

TrustNext == createInvocation \/ ShouldConfirm \/ Resolve

SpecTrust == TrustInit /\ [][TrustNext]_vars

\* invocation i has been given ProceedAlways
Trusted(i) == i.always

\* C14: trust isolation: ProceedAlways changes only the allow-set of the
\* invocation that received it. In every interleaving each invocation holds
\* the static allow-set plus, if it received ProceedAlways itself, its own
\* root token; and the confirmation decision of an invocation that received
\* no ProceedAlways is the one the static allow-set gives.
C14_TrustIsolation ==
  \A k \in DOMAIN invocations :
    LET i == invocations[k] IN
    /\ i.allowedCommands =
         allowedCommands \cup (IF Trusted(i) THEN {rootCommand(i.command)} ELSE {})
    /\ (~Trusted(i) /\ i.lastConfirm # "none") =>
         i.lastConfirm =
           (IF rootCommand(i.command) \in allowedCommands THEN "false" ELSE "request")

\* two invocations with the same root token: the first was given
\* ProceedAlways, the second was asked and returned a request
C14_Witness ==
  /\ Len(invocations) = 2
  /\ rootCommand(invocations[1].command) = rootCommand(invocations[2].command)
  /\ Trusted(invocations[1])
  /\ invocations[1].allowedCommands # allowedCommands
  /\ ~Trusted(invocations[2])
  /\ invocations[2].lastConfirm = "request"
  /\ invocations[2].allowedCommands = allowedCommands

\* C15: shouldConfirmExecute returns a request exactly when the first token
\* of the command is not in the invocation's allow-set, and false otherwise;
\* once a request was resolved with ProceedAlways the token is in that
\* allow-set and a later shouldConfirmExecute on the invocation returns false.
C15_TrustModel ==
  [][\A k \in DOMAIN invocations :
       LET i == invocations[k]
           j == invocations'[k]
       IN /\ j.confirmCalls = i.confirmCalls + 1 =>
               /\ (j.lastConfirm = "request") <=>
                    (rootCommand(i.command) \notin i.allowedCommands)
               /\ (j.lastConfirm = "false") <=>
                    (rootCommand(i.command) \in i.allowedCommands)
               /\ Trusted(i) => j.lastConfirm = "false"
          /\ Trusted(j) => rootCommand(j.command) \in j.allowedCommands]_vars

\* an invocation returned a request, was given ProceedAlways and returned
\* false when asked again
C15_Witness ==
  \E k \in DOMAIN invocations :
    LET i == invocations[k] IN
    /\ rootCommand(i.command) \notin allowedCommands
    /\ i.requested
    /\ Trusted(i)
    /\ i.confirmCalls >= 2
    /\ i.lastConfirm = "false"

\* C37: the confirmation decision of run_shell_command depends only on the
\* first space-delimited token of the trimmed command: two invocations whose
\* commands have the same first token get the same decision when they are
\* first asked, and the same decision whenever their allow-sets are equal,
\* whatever follows the token, chained or piped commands included.
C37_FirstTokenDecides ==
  \A k \in DOMAIN invocations, l \in DOMAIN invocations :
    LET i == invocations[k]
        j == invocations[l]
    IN rootCommand(i.command) = rootCommand(j.command) =>
         /\ (i.confirmCalls = 1 /\ j.confirmCalls = 1) =>
              i.lastConfirm = j.lastConfirm
         /\ i.allowedCommands = j.allowedCommands =>
              shouldConfirmShell(i) = shouldConfirmShell(j)

\* "ls" and "ls | x" were both asked and both run without confirmation
C37_Witness ==
  /\ Len(invocations) = 2
  /\ invocations[1].command = <<"l", "s">>
  /\ invocations[2].command = <<"l", "s", " ", "|", " ", "x">>
  /\ invocations[1].confirmCalls = 1
  /\ invocations[2].confirmCalls = 1
  /\ invocations[1].lastConfirm = "false"
  /\ invocations[2].lastConfirm = "false"

(***************************************************************************)
(* Schema names. A name is the sequence of its words, which the code        *)
(* writes with "_" between them: "a_b" is <<"a", "b">>, and joining two     *)
(* names with "_" is joining their sequences.                              *)
(***************************************************************************)
\* most capabilities a provider lists, and most calls of connectServer
MaxTools == 2
MaxConnects == 2

ServerNames == { <<"a">>, <<"a", "b">>, <<"write">> }
CapNames == { <<"c">>, <<"b", "c">>, <<"file">> }

\* the names of the built-in tools, in registration order
BuiltinSchemaNames == << <<"write", "file">>, <<"run", "shell", "command">> >>

\* the name an MCPToolWrapper gives itself: `${serverName}_${mcpTool.name}`
WrapperName(serverName, toolName) == serverName \o toolName

\* a registry that keeps the first tool registered under a name
registerToolKeepFirst(reg, tool) ==
  IF \E i \in 1..Len(reg) : reg[i].name = tool.name
  THEN reg
  ELSE Append(reg, tool)

\* DefaultToolRegistry.registerTool: Map.set replaces the entry of a name
\* that is present, in place, and appends a new one
registerTool(reg, tool) ==
  IF \E i \in 1..Len(reg) : reg[i].name = tool.name
  THEN [i \in 1..Len(reg) |-> IF reg[i].name = tool.name THEN tool ELSE reg[i]]
  ELSE Append(reg, tool)

\* MCPClient.registerServerTools: a wrapper for every listed capability
RECURSIVE registerServerTools(_, _, _)
registerServerTools(reg, serverName, tools) ==
  IF tools = <<>> THEN reg
  ELSE registerServerTools(
         registerTool(reg, [name |-> WrapperName(serverName, Head(tools)),
                            server |-> serverName, tool |-> Head(tools)]),
         serverName, Tail(tools))

\* the capability lists a provider may answer tools/list with
ToolLists == UNION { [1..n -> CapNames] : n \in 0..MaxTools }

\* MCPClient.connectServer
connectServer ==
  /\ connects < MaxConnects
  /\ \E serverName \in ServerNames, tools \in ToolLists :
       /\ servers' = servers \cup {serverName}
       /\ registry' = registerServerTools(registry, serverName, tools)
       /\ exposed' = exposed \cup { <<serverName, tools[i]>> : i \in 1..Len(tools) }
  /\ connects' = connects + 1
  /\ UNCHANGED <<lifeVars, valVars, trustVars, multiVars>>

\* MCPClient.disconnectServer: the connection goes, the wrappers stay
disconnectServer ==
  /\ \E serverName \in servers : servers' = servers \ {serverName}
  /\ UNCHANGED <<registry, exposed, connects>>
  /\ UNCHANGED <<lifeVars, valVars, trustVars, multiVars>>

\* ToolManager.getAllTools, as names: built-in schemas, then bridged ones
getAllTools == BuiltinSchemaNames \o [i \in 1..Len(registry) |-> registry[i].name]

NamesInit ==
  /\ ValIdle
  /\ TrustIdle
  /\ NamesIdle
  /\ MultiIdle
  /\ LifeIdle
  /\ cfg = [useSimpleMCP |-> FALSE, mcpTools |-> {}]
  /\ fs = [n \in FsNodes |-> AbsentNode]

NamesNext == connectServer \/ disconnectServer

SpecNames == NamesInit /\ [][NamesNext]_vars

\* C17: schema names are globally unique: the names getAllTools returns are
\* pairwise distinct, and two different (provider, capability) pairs never
\* get the same namespaced name.
C17_UniqueNames ==
  /\ \A i, j \in 1..Len(getAllTools) : i # j => getAllTools[i] # getAllTools[j]
  /\ \A p, q \in exposed :
       p # q => WrapperName(p[1], p[2]) # WrapperName(q[1], q[2])

(***************************************************************************)
(* AIToolsIntegration.executeToolCalls: a batch of tool calls, each run    *)
(* through executeToolSafely with the integration's own signal and a       *)
(* timeout of one minute, its outcome pushed onto the results.             *)
(***************************************************************************)
MaxBatch == 2

\* the calls a batch is made of: a write, a write without content, a name
\* that is not registered (its id left out), a shell command, a bridged tool
BatchCalls ==
  { [id |-> Some("t1"), name |-> "write_file",
     params |-> [file_path |-> <<"/","w","/","w">>, content |-> Some(<<"a">>),
                 create_directories |-> FALSE]],
    [id |-> Some("t2"), name |-> "write_file",
     params |-> [file_path |-> <<"/","w","/","w">>, content |-> Absent,
                 create_directories |-> FALSE]],
    [id |-> Absent, name |-> "unknown_tool", params |-> [isObject |-> TRUE]],
    [id |-> Some("t3"), name |-> "run_shell_command",
     params |-> [command |-> <<"l","s">>, directory |-> <<>>, timeout |-> Absent]],
    [id |-> Some("t4"), name |-> BridgedName, params |-> [isObject |-> TRUE]] }

RECURSIVE SeqsUpTo(_, _)
SeqsUpTo(S, n) ==
  IF n = 0 THEN { <<>> }
  ELSE LET shorter == SeqsUpTo(S, n - 1) IN
       shorter \cup { Append(q, x) : q \in shorter, x \in S }

\* a response whose success flag only says that the call returned
BatchResponseReturned(toolCall, res) ==
  [toolCallId |-> toolCall.id,
   result |-> AIToolResponse(res).result,
   success |-> res.kind = "result"]

\* the AIToolResponse pushed for a call: the call's id, the result (or the
\* TOOL_EXECUTION_ERROR result built from a thrown error), success
BatchResponse(toolCall, res) ==
  [toolCallId |-> toolCall.id,
   result |-> AIToolResponse(res).result,
   success |-> AIToolResponse(res).success]

\* executeToolCalls is called: results = []
executeToolCalls ==
  /\ batch.state = "idle"
  /\ \E toolCalls \in SeqsUpTo(BatchCalls, MaxBatch) :
       batch' = [NoBatch EXCEPT !.state = "running", !.calls = toolCalls]
  /\ UNCHANGED <<writers, registerCalls, diffCall, bridge>>
  /\ UNCHANGED <<lifeVars, valVars, trustVars, nameVars>>

\* the loop's next iteration: executeToolSafely(name, parameters, {signal,
\* timeout: 60000}) up to its await; the signal is the one of the
\* integration's current AbortController
BatchDispatch ==
  /\ batch.state = "running"
  /\ pc = "Idle"
  /\ batch.dispatched = Len(batch.responses)
  /\ batch.dispatched < Len(batch.calls)
  /\ LET toolCall == batch.calls[batch.dispatched + 1]
         r == callToolStart(toolCall.name, toolCall.params, fs)
     IN /\ call' = [api |-> "executeToolSafely", name |-> toolCall.name,
                    params |-> toolCall.params]
        /\ orchTimer' = "pending"
        /\ sig' = combineAbortSignals(batch.controller.aborted)
        /\ inv' = r.inv
        /\ toolResult' = r.res
        /\ pc' = r.pc
  /\ batch' = [batch EXCEPT !.dispatched = @ + 1, !.callStale = FALSE]
  /\ UNCHANGED <<cfg, fs, child, sh, mcpReq, effects, finalResult, writers, registerCalls,
                 diffCall, bridge>>
  /\ UNCHANGED <<valVars, trustVars, nameVars>>

\* a cancelAllTools that aborts the controller and keeps it
cancelAllToolsKeeping ==
  /\ batch.state = "running"
  /\ ~batch.controller.aborted
  /\ IF pc # "Idle" /\ ~batch.callStale
     THEN SignalAbort("caller")
     ELSE UNCHANGED <<sig, child, sh>>
  /\ batch' = [batch EXCEPT !.controller.aborted = TRUE]
  /\ UNCHANGED <<cfg, fs, call, pc, orchTimer, inv, mcpReq, effects, toolResult,
                 finalResult, writers, registerCalls, diffCall, bridge>>
  /\ UNCHANGED <<valVars, trustVars, nameVars>>

\* cancelAllTools while a batch runs: abortController.abort(), which fires
\* the signal of a call in flight that was given this controller's signal,
\* then abortController = new AbortController()
cancelAllTools ==
  /\ batch.state = "running"
  /\ IF pc # "Idle" /\ ~batch.callStale
     THEN SignalAbort("caller")
     ELSE UNCHANGED <<sig, child, sh>>
  /\ batch' = [batch EXCEPT !.controller = [aborted |-> FALSE],
                            !.callStale = pc # "Idle"]
  /\ UNCHANGED <<cfg, fs, call, pc, orchTimer, inv, mcpReq, effects, toolResult,
                 finalResult, writers, registerCalls, diffCall, bridge>>
  /\ UNCHANGED <<valVars, trustVars, nameVars>>

\* the state of one call, cleared for the next iteration; the next call
\* reads the signal of the integration's controller anew
NextIteration ==
  /\ call' = NoCall
  /\ pc' = "Idle"
  /\ sig' = NoSignals
  /\ orchTimer' = "none"
  /\ inv' = NoInvocation
  /\ child' = NoChild
  /\ sh' = NoShell
  /\ mcpReq' = "none"
  /\ toolResult' = NoResult
  /\ finalResult' = NoResult

\* a loop body without the try/catch: a rejection of executeToolSafely
\* rejects executeToolCalls
BatchCollectUncaught ==
  /\ batch.state = "running"
  /\ pc = "Done"
  /\ batch' = IF finalResult.kind = "throw"
              THEN [batch EXCEPT !.state = "rejected", !.callStale = FALSE]
              ELSE [batch EXCEPT !.callStale = FALSE, !.responses =
                      Append(@, BatchResponse(batch.calls[batch.dispatched],
                                              finalResult))]
  /\ NextIteration
  /\ UNCHANGED <<cfg, fs, effects, writers, registerCalls, diffCall, bridge>>
  /\ UNCHANGED <<valVars, trustVars, nameVars>>

\* the await of executeToolSafely is over: its result, or the result built
\* in the catch block from a thrown error, is pushed
BatchCollect ==
  /\ batch.state = "running"
  /\ pc = "Done"
  /\ batch' = [batch EXCEPT !.callStale = FALSE, !.responses =
                 Append(@, BatchResponse(batch.calls[batch.dispatched],
                                         finalResult))]
  /\ NextIteration
  /\ UNCHANGED <<cfg, fs, effects, writers, registerCalls, diffCall, bridge>>
  /\ UNCHANGED <<valVars, trustVars, nameVars>>

\* the loop is over: return results
BatchReturn ==
  /\ batch.state = "running"
  /\ pc = "Idle"
  /\ Len(batch.responses) = Len(batch.calls)
  /\ batch' = [batch EXCEPT !.state = "returned"]
  /\ UNCHANGED <<writers, registerCalls, diffCall, bridge>>
  /\ UNCHANGED <<lifeVars, valVars, trustVars, nameVars>>

\* the workspace holds one file; a bridged tool is registered
BatchInit ==
  /\ ValIdle
  /\ TrustIdle
  /\ NamesIdle
  /\ MultiIdle
  /\ LifeIdle
  /\ cfg = [useSimpleMCP |-> FALSE, mcpTools |-> {BridgedName}]
  /\ fs = [n \in FsNodes |-> IF n = NodeA THEN File(OldContent) ELSE AbsentNode]

BatchNext ==
  \/ executeToolCalls
  \/ BatchDispatch
  \/ invokeConfirm
  \/ FileChanged
  \/ ExecuteWriteFile
  \/ ExecuteShell
  \/ ExecuteMCP
  \/ cancelAllTools
  \/ OrchTimeout
  \/ ChildData
  \/ ChildClose
  \/ ShellTimeout
  \/ GraceTimeout
  \/ ProviderAnswer
  \/ ProviderError
  \/ executeToolSafelySettle
  \/ BatchCollect
  \/ BatchReturn

SpecBatch == BatchInit /\ [][BatchNext]_vars

\* C23: executeToolCalls returns one response per input call, in input
\* order; response i carries the id of call i, and its success flag is true
\* exactly when its result has no error entry
C23_OneResponsePerCall ==
  /\ Len(batch.responses) <= Len(batch.calls)
  /\ \A i \in 1..Len(batch.responses) :
       /\ batch.responses[i].toolCallId = batch.calls[i].id
       /\ batch.responses[i].result.kind = "result"
       /\ batch.responses[i].success <=> batch.responses[i].result.errType = ""
  /\ batch.state = "returned" => Len(batch.responses) = Len(batch.calls)

\* a batch of two calls has returned, one response a success and one not
C23_Witness ==
  /\ batch.state = "returned"
  /\ Len(batch.calls) = 2
  /\ batch.calls[1].id # batch.calls[2].id
  /\ batch.responses[1].success
  /\ ~batch.responses[2].success

\* C30: the calls of a batch run strictly one after another, a failure or
\* thrown error of a call is captured into its response and the later calls
\* still run, and executeToolCalls never rejects
C30_SequentialBatch ==
  /\ batch.state # "rejected"
  /\ batch.dispatched - Len(batch.responses) \in {0, 1}
  /\ (pc # "Idle" /\ batch.state = "running") =>
       /\ batch.dispatched = Len(batch.responses) + 1
       /\ call.name = batch.calls[batch.dispatched].name
  /\ batch.state = "returned" =>
       /\ batch.dispatched = Len(batch.calls)
       /\ Len(batch.responses) = Len(batch.calls)

\* the first call of a batch threw (unknown name or validation error), the
\* second one was dispatched after it and succeeded, the batch returned
C30_Witness ==
  /\ batch.state = "returned"
  /\ Len(batch.calls) = 2
  /\ batch.calls[1].name \in {"unknown_tool", "write_file"}
  /\ batch.responses[1].result.errType = "TOOL_EXECUTION_ERROR"
  /\ batch.responses[2].success

\* C32: cancelAllTools fires the token of the calls in flight and installs a
\* fresh one: every call dispatched after it, the later calls of a running
\* batch included, runs with a token that had not fired at its dispatch and
\* that only a cancelAllTools made during the call fires
C32_FreshToken ==
  (batch.state = "running" /\ pc # "Idle") =>
    /\ sig.firedAt # "Idle"
    /\ sig.caller <=> batch.callStale
    /\ ~batch.controller.aborted

\* cancelAllTools cut the first call of a batch short; the second call was
\* dispatched afterwards, ran with a token that did not fire, and succeeded
C32_Witness ==
  /\ batch.state = "running"
  /\ Len(batch.responses) = 1
  /\ batch.calls[1].name = "run_shell_command"
  /\ batch.responses[1].result.display = "Command cancelled by user"
  /\ batch.dispatched = 2
  /\ ~batch.callStale
  /\ pc = "Done"
  /\ ~sig.caller
  /\ ~sig.combined
  /\ finalResult.kind = "result"
  /\ finalResult.errType = ""

(***************************************************************************)
(* DefaultToolRegistry on its own: tools are registered in any order.      *)
(***************************************************************************)
MaxRegisterCalls == 4

\* a tool of the registry, as the wrapper or built-in that holds its name
Wrapper(serverName, toolName) ==
  [name |-> WrapperName(serverName, toolName), server |-> serverName,
   tool |-> toolName]
Builtin(name) == [name |-> name, server |-> <<>>, tool |-> name]

\* the tools to register: the built-in ones, and wrappers of which one has
\* the name of a built-in tool and two have the same name
RegistryTools ==
  { Builtin(BuiltinSchemaNames[1]), Builtin(BuiltinSchemaNames[2]),
    Wrapper(<<"write">>, <<"file">>), Wrapper(<<"a">>, <<"b", "c">>),
    Wrapper(<<"a", "b">>, <<"c">>), Wrapper(<<"a">>, <<"c">>) }
RegistryNames == { t.name : t \in RegistryTools } \cup { <<"none">> }

\* DefaultToolRegistry.getTool: Map.get, undefined for a name without entry
getTool(reg, name) ==
  IF \E i \in 1..Len(reg) : reg[i].name = name
  THEN Some(reg[CHOOSE i \in 1..Len(reg) : reg[i].name = name])
  ELSE Absent

\* BaseDeclarativeTool.schema
toolSchema(tool) == [name |-> tool.name, description |-> tool.tool]

\* DefaultToolRegistry.getToolSchemas: getAllTools().map(tool => tool.schema)
getToolSchemas(reg) == [i \in 1..Len(reg) |-> toolSchema(reg[i])]

\* registerTool is called on the registry
RegisterTool ==
  /\ Len(registerCalls) < MaxRegisterCalls
  /\ \E tool \in RegistryTools :
       /\ registry' = registerTool(registry, tool)
       /\ registerCalls' = Append(registerCalls, tool)
  /\ UNCHANGED <<servers, exposed, connects, batch, writers, diffCall, bridge>>
  /\ UNCHANGED <<lifeVars, valVars, trustVars>>

RegistryInit ==
  /\ ValIdle
  /\ TrustIdle
  /\ NamesIdle
  /\ MultiIdle
  /\ LifeIdle
  /\ cfg = [useSimpleMCP |-> FALSE, mcpTools |-> {}]
  /\ fs = [n \in FsNodes |-> AbsentNode]

RegistryNext == RegisterTool

SpecRegistry == RegistryInit /\ [][RegistryNext]_vars

\* the registry holds one tool per name and one schema per tool
OnePerName(reg) ==
  /\ \A i, j \in 1..Len(reg) : i # j => reg[i].name # reg[j].name
  /\ Len(getToolSchemas(reg)) = Len(reg)
  /\ \A i \in 1..Len(reg) : getToolSchemas(reg)[i] = toolSchema(reg[i])

\* the tool most recently registered under a name, if any
LastRegistered(name) ==
  LET calls == { i \in 1..Len(registerCalls) : registerCalls[i].name = name } IN
  IF calls = {} THEN Absent
  ELSE Some(registerCalls[CHOOSE i \in calls : \A k \in calls : k <= i])

\* C24: after any sequence of registerTool calls getTool(n) is the tool most
\* recently registered under n (undefined if none was), getAllTools holds
\* one tool per distinct registered name, getToolSchemas one schema per
\* tool; registering a name again replaces the prior entry
C24_RegistrySemantics ==
  /\ \A n \in RegistryNames : getTool(registry, n) = LastRegistered(n)
  /\ { registry[i].name : i \in 1..Len(registry) } =
       { registerCalls[i].name : i \in 1..Len(registerCalls) }
  /\ OnePerName(registry)

\* a name was registered again with another tool: more calls than entries,
\* and the later tool is the one getTool returns
C24_Witness ==
  /\ Len(registerCalls) = 2
  /\ registerCalls[1] = Builtin(<<"write", "file">>)
  /\ registerCalls[2] = Wrapper(<<"write">>, <<"file">>)
  /\ Len(registry) = 1
  /\ getTool(registry, <<"write", "file">>) = Some(Wrapper(<<"write">>, <<"file">>))

(***************************************************************************)
(* write_file calls on one path that run side by side in one process: each *)
(* call is suspended at the awaits of invoke (confirmation) and runs its   *)
(* execute, which has no await, in one piece.                              *)
(***************************************************************************)
MaxWriters == 2

WritePath == <<"/", "w", "/", "w">>
WriterParams ==
  { [file_path |-> WritePath, content |-> Some(c), create_directories |-> FALSE] :
      c \in CallContents }

\* what the target holds (the empty string for a file that is not there)
Holds(f) ==
  LET n == NodeOf(f, PathResolve(WorkspaceRoot, WritePath)) IN
  IF n.kind = "file" THEN n.content ELSE <<>>

\* how many calls have written so far
Written == Cardinality({ k \in 1..Len(writers) : writers[k].order > 0 })

\* callTool('write_file', params) up to the await of the confirmation
WriterInvoke ==
  /\ Len(writers) < MaxWriters
  /\ \E params \in WriterParams :
       LET r == invoke("write_file", params, fs) IN
       writers' = Append(writers, [params |-> params, pc |-> r.pc, inv |-> r.inv,
                                   res |-> r.res, order |-> 0, replaced |-> <<>>])
  /\ UNCHANGED <<batch, registerCalls, diffCall, bridge>>
  /\ UNCHANGED <<lifeVars, valVars, trustVars, nameVars>>

\* an execute that reports the baseline read for the confirmation
WriterExecuteStale ==
  /\ \E k \in 1..Len(writers), approved \in BOOLEAN :
       /\ writers[k].pc = "Confirming"
       /\ IF ~approved
          THEN /\ writers' = [writers EXCEPT ![k].pc = "Done",
                                             ![k].res = CancelledByUser]
               /\ UNCHANGED fs
          ELSE LET r == WriteFileExecute(writers[k].params, FALSE, fs) IN
               /\ writers' =
                    [writers EXCEPT
                       ![k].pc = "Done",
                       ![k].res =
                          IF r.res.errType = ""
                          THEN FileDiffResult(
                                 Value(writers[k].inv.shown).originalContent,
                                 Value(writers[k].params.content))
                          ELSE r.res,
                       ![k].order = IF "write" \in r.eff THEN Written + 1 ELSE 0,
                       ![k].replaced = Holds(fs)]
               /\ fs' = r.fs
  /\ UNCHANGED <<cfg, call, pc, sig, orchTimer, inv, child, sh, mcpReq, effects,
                 toolResult, finalResult, batch, registerCalls, diffCall, bridge>>
  /\ UNCHANGED <<valVars, trustVars, nameVars>>

\* the confirmation of a call is answered and invoke goes on: declined, or
\* execute from its baseline read to its write, without an await between
\* them. order and replaced record when the write happened and what the
\* file held just before it
WriterExecute ==
  /\ \E k \in 1..Len(writers), approved \in BOOLEAN :
       /\ writers[k].pc = "Confirming"
       /\ IF ~approved
          THEN /\ writers' = [writers EXCEPT ![k].pc = "Done",
                                             ![k].res = CancelledByUser]
               /\ UNCHANGED fs
          ELSE LET r == WriteFileExecute(writers[k].params, FALSE, fs) IN
               /\ writers' =
                    [writers EXCEPT
                       ![k].pc = "Done",
                       ![k].res = r.res,
                       ![k].order = IF "write" \in r.eff THEN Written + 1 ELSE 0,
                       ![k].replaced = Holds(fs)]
               /\ fs' = r.fs
  /\ UNCHANGED <<cfg, call, pc, sig, orchTimer, inv, child, sh, mcpReq, effects,
                 toolResult, finalResult, batch, registerCalls, diffCall, bridge>>
  /\ UNCHANGED <<valVars, trustVars, nameVars>>

\* the target is absent or holds a file
WritesInit ==
  /\ ValIdle
  /\ TrustIdle
  /\ NamesIdle
  /\ MultiIdle
  /\ LifeIdle
  /\ cfg = [useSimpleMCP |-> FALSE, mcpTools |-> {}]
  /\ fs \in { [n \in FsNodes |-> IF n = NodeA THEN a ELSE AbsentNode] :
                a \in {AbsentNode, File(OldContent)} }

WritesNext == WriterInvoke \/ WriterExecute

SpecWrites == WritesInit /\ [][WritesNext]_vars

\* the calls that wrote
Succeeded(k) == writers[k].pc = "Done" /\ writers[k].order > 0

\* C25: when write_file calls on one path run concurrently and succeed, the
\* file holds, in full, the content of the call whose write happened last;
\* and the originalContent each call reports is the content its own write
\* replaced
C25_LastWriterWins ==
  /\ \A k \in 1..Len(writers) :
       Succeeded(k) =>
         /\ writers[k].res.errType = ""
         /\ Value(writers[k].res.diff).originalContent = writers[k].replaced
         /\ Value(writers[k].res.diff).newContent = Value(writers[k].params.content)
         /\ writers[k].order = Written => Holds(fs) = Value(writers[k].params.content)
  /\ \A k, l \in 1..Len(writers) :
       (Succeeded(k) /\ Succeeded(l) /\ writers[l].order = writers[k].order + 1) =>
         writers[l].replaced = Value(writers[k].params.content)

\* two calls were waiting for their confirmation at the same time; the
\* second wrote first, the first wrote last and replaced what the second
\* wrote, which is not the baseline it showed
C25_Witness ==
  /\ Len(writers) = 2
  /\ Succeeded(1)
  /\ Succeeded(2)
  /\ writers[1].order = 2
  /\ writers[2].order = 1
  /\ Value(writers[1].params.content) # Value(writers[2].params.content)
  /\ Value(writers[1].inv.shown).originalContent # writers[1].replaced
  /\ Holds(fs) = Value(writers[1].params.content)

(***************************************************************************)
(* calculateDiffStat on texts: Diff.diffLines cuts both texts into lines,  *)
(* each with its line break, and compares the lines.                       *)
(***************************************************************************)
MaxTextLen == 3

\* texts over two letters and the line break
TextChars == {"a", "b", "\n"}
Texts == UNION { [1..n -> TextChars] : n \in 0..MaxTextLen }

\* the tokens of diffLines: the text split after every line break; a text
\* that ends with a line break has no empty last line
RECURSIVE tokenize(_, _, _)
tokenize(text, line, acc) ==
  IF text = <<>> THEN (IF line = <<>> THEN acc ELSE Append(acc, line))
  ELSE IF Head(text) = "\n"
       THEN tokenize(Tail(text), <<>>, Append(acc, Append(line, "\n")))
       ELSE tokenize(Tail(text), Append(line, Head(text)), acc)

\* calculateDiffStat(oldContent, newContent) is called
ComputeDiffStat ==
  /\ ~diffCall.called
  /\ \E oldContent \in Texts, newContent \in Texts :
       diffCall' = [called |-> TRUE, oldContent |-> oldContent,
                    newContent |-> newContent,
                    stat |-> calculateDiffStat(tokenize(oldContent, <<>>, <<>>),
                                               tokenize(newContent, <<>>, <<>>))]
  /\ UNCHANGED <<batch, writers, registerCalls, bridge>>
  /\ UNCHANGED <<lifeVars, valVars, trustVars, nameVars>>

DiffInit ==
  /\ ValIdle
  /\ TrustIdle
  /\ NamesIdle
  /\ MultiIdle
  /\ LifeIdle
  /\ cfg = [useSimpleMCP |-> FALSE, mcpTools |-> {}]
  /\ fs = [n \in FsNodes |-> AbsentNode]

DiffNext == ComputeDiffStat

SpecDiff == DiffInit /\ [][DiffNext]_vars

\* the number of lines of a text: its line breaks, and one more for a last
\* line without line break
LineCount(text) ==
  Cardinality({ i \in 1..Len(text) : text[i] = "\n" })
    + (IF text # <<>> /\ text[Len(text)] # "\n" THEN 1 ELSE 0)

\* a text that ends where a line ends
WholeLines(text) == text = <<>> \/ text[Len(text)] = "\n"

\* C27: for every pair of texts additions - deletions is the number of
\* lines of the proposed text minus that of the original, changes is
\* additions + deletions, and unchanged lines count toward neither: equal
\* texts give zero, lines put after (before) the original are only additions
C27_LineCountSanity ==
  diffCall.called =>
    LET o == diffCall.oldContent
        n == diffCall.newContent
        st == diffCall.stat
    IN /\ st.additions - st.deletions = LineCount(n) - LineCount(o)
       /\ st.changes = st.additions + st.deletions
       /\ st.additions \in 0..LineCount(n)
       /\ st.deletions \in 0..LineCount(o)
       /\ o = n => (st.additions = 0 /\ st.deletions = 0)
       /\ (WholeLines(o) /\ IsPrefix(o, n)) =>
            (st.deletions = 0 /\ st.additions = LineCount(n) - LineCount(o))
       /\ (WholeLines(n) /\ IsPrefix(n, o)) =>
            (st.additions = 0 /\ st.deletions = LineCount(o) - LineCount(n))

\* a line is put after an unchanged one: one addition, no deletion
C27_Witness ==
  /\ diffCall.called
  /\ diffCall.oldContent = <<"a", "\n">>
  /\ diffCall.newContent = <<"a", "\n", "b">>
  /\ diffCall.stat = [additions |-> 1, deletions |-> 0, changes |-> 1]

(***************************************************************************)
(* The bridge inside a ToolManager, in both implementations (MCPClient     *)
(* when cfg.useSimpleMCP is false, SimpleMCPClient when it is true):       *)
(* initialize connects the configured providers one after another, then    *)
(* providers are added and removed, then shutdown disconnects all.         *)
(***************************************************************************)
\* DEFAULT_MCP_SERVERS and SIMPLE_DEFAULT_MCP_SERVERS, by name
BridgeServers == << <<"filesystem">>, <<"git">>, <<"web-search">> >>
BridgeServerNames == { BridgeServers[i] : i \in 1..Len(BridgeServers) }

\* SimpleMCPClient.registerExampleTools: the tools it makes up for a name
exampleTools(serverName) ==
  IF serverName = <<"filesystem">>
  THEN << <<"read", "file">>, <<"list", "directory">> >>
  ELSE IF serverName = <<"git">>
  THEN << <<"git", "status">>, <<"git", "log">> >>
  ELSE IF serverName = <<"web-search">>
  THEN << <<"search", "web">> >>
  ELSE <<>>

\* what a provider may answer tools/list with (a failed or malformed answer
\* registers nothing, like the empty list)
BridgeToolLists == { <<>>, << <<"c">> >>, << <<"c">>, <<"file">> >> }

\* how a connectServer call can end: rejected (the connection could not be
\* made), or resolved with the tools it registered
ConnectOutcomes(serverName) ==
  IF cfg.useSimpleMCP
  THEN { [ok |-> TRUE, tools |-> exampleTools(serverName)] }
  ELSE { [ok |-> FALSE, tools |-> <<>>] }
       \cup { [ok |-> TRUE, tools |-> t] : t \in BridgeToolLists }

\* connectServer(config) with the given end: on success the name is stored
\* as connected and the tools are registered
Connected(serverName, o) ==
  /\ servers' = IF o.ok THEN servers \cup {serverName} ELSE servers
  /\ registry' = IF o.ok THEN registerServerTools(registry, serverName, o.tools)
                 ELSE registry
  /\ exposed' = exposed \cup { <<serverName, o.tools[i]>> : i \in 1..Len(o.tools) }

\* disconnectServer(serverName): for a stored name the connection is closed
\* and the name deleted; MCPClient skips the delete when a close throws
Disconnected(srv, serverName, closeFails) ==
  IF serverName \in srv /\ ~(closeFails /\ ~cfg.useSimpleMCP)
  THEN srv \ {serverName}
  ELSE srv

\* ToolManager.initialize is called
initialize ==
  /\ bridge.phase = "new"
  /\ bridge' = [bridge EXCEPT !.phase = "initializing"]
  /\ UNCHANGED <<batch, writers, registerCalls, diffCall>>
  /\ UNCHANGED <<lifeVars, valVars, trustVars, nameVars>>

\* a loop without the try/catch: a failed connectServer rejects initialize
InitConnectAborting ==
  /\ bridge.phase = "initializing"
  /\ Len(bridge.outcomes) < Len(BridgeServers)
  /\ LET serverName == BridgeServers[Len(bridge.outcomes) + 1] IN
     \E o \in ConnectOutcomes(serverName) :
       /\ Connected(serverName, o)
       /\ bridge' = [bridge EXCEPT
                       !.phase = IF o.ok THEN @ ELSE "rejected",
                       !.outcomes = Append(@, o.ok),
                       !.succeeded = IF o.ok THEN @ \cup {serverName} ELSE @]
  /\ UNCHANGED <<connects, batch, writers, registerCalls, diffCall>>
  /\ UNCHANGED <<lifeVars, valVars, trustVars>>

\* initializeMCPServers: the next configured provider is connected; a
\* rejection of connectServer is caught and the loop goes on
InitConnect ==
  /\ bridge.phase = "initializing"
  /\ Len(bridge.outcomes) < Len(BridgeServers)
  /\ LET serverName == BridgeServers[Len(bridge.outcomes) + 1] IN
     \E o \in ConnectOutcomes(serverName) :
       /\ Connected(serverName, o)
       /\ bridge' = [bridge EXCEPT
                       !.outcomes = Append(@, o.ok),
                       !.succeeded = IF o.ok THEN @ \cup {serverName} ELSE @]
  /\ UNCHANGED <<connects, batch, writers, registerCalls, diffCall>>
  /\ UNCHANGED <<lifeVars, valVars, trustVars>>

\* the loop is over: initialize resolves
InitDone ==
  /\ bridge.phase = "initializing"
  /\ Len(bridge.outcomes) = Len(BridgeServers)
  /\ bridge' = [bridge EXCEPT !.phase = "ready"]
  /\ UNCHANGED <<batch, writers, registerCalls, diffCall>>
  /\ UNCHANGED <<lifeVars, valVars, trustVars, nameVars>>

\* ToolManager.addMCPServer: connectServer, its rejection handed on
addMCPServer ==
  /\ bridge.phase = "ready"
  /\ \E serverName \in BridgeServerNames :
     \E o \in ConnectOutcomes(serverName) :
       /\ Connected(serverName, o)
       /\ bridge' = [bridge EXCEPT
                       !.succeeded = IF o.ok THEN @ \cup {serverName} ELSE @]
  /\ UNCHANGED <<connects, batch, writers, registerCalls, diffCall>>
  /\ UNCHANGED <<lifeVars, valVars, trustVars>>

\* a disconnect that also takes the provider's wrappers out of the registry
removeMCPServerPruning ==
  /\ bridge.phase = "ready"
  /\ \E serverName \in BridgeServerNames, closeFails \in BOOLEAN :
       /\ servers' = Disconnected(servers, serverName, closeFails)
       /\ registry' = SelectSeq(registry, LAMBDA t : t.server # serverName)
  /\ UNCHANGED <<exposed, connects>>
  /\ UNCHANGED <<lifeVars, valVars, trustVars, multiVars>>

\* ToolManager.removeMCPServer: disconnectServer; the registry is not touched
removeMCPServer ==
  /\ bridge.phase = "ready"
  /\ \E serverName \in BridgeServerNames, closeFails \in BOOLEAN :
       servers' = Disconnected(servers, serverName, closeFails)
  /\ UNCHANGED <<registry, exposed, connects>>
  /\ UNCHANGED <<lifeVars, valVars, trustVars, multiVars>>

\* ToolManager.shutdown: disconnectAll calls disconnectServer for every
\* stored name and resolves when all have; failing are the names whose
\* close throws
shutdown ==
  /\ bridge.phase = "ready"
  /\ \E failing \in SUBSET servers :
       servers' = { n \in servers : Disconnected({n}, n, n \in failing) # {} }
  /\ bridge' = [bridge EXCEPT !.phase = "down"]
  /\ UNCHANGED <<registry, exposed, connects, batch, writers, registerCalls,
                 diffCall>>
  /\ UNCHANGED <<lifeVars, valVars, trustVars>>

BridgeInit ==
  /\ ValIdle
  /\ TrustIdle
  /\ NamesIdle
  /\ MultiIdle
  /\ LifeIdle
  /\ cfg \in [useSimpleMCP : BOOLEAN, mcpTools : {{}}]
  /\ fs = [n \in FsNodes |-> AbsentNode]

BridgeNext ==
  \/ initialize
  \/ InitConnect
  \/ InitDone
  \/ addMCPServer
  \/ removeMCPServer
  \/ shutdown

SpecBridge == BridgeInit /\ [][BridgeNext]_vars

\* the configured providers whose connectServer has succeeded so far
InitConnected ==
  { BridgeServers[i] : i \in { k \in 1..Len(bridge.outcomes) : bridge.outcomes[k] } }

\* C34: during initialize a provider whose connectServer fails does not
\* keep the remaining providers from being connected, initialize does not
\* reject, and a name is in getConnectedServers() only if its connect step
\* succeeded
C34_ConnectionIsolation ==
  /\ bridge.phase # "rejected"
  /\ servers \subseteq bridge.succeeded
  /\ bridge.phase = "initializing" => servers = InitConnected
  /\ bridge.phase = "ready" => Len(bridge.outcomes) = Len(BridgeServers)

\* the first provider could not be connected, the two after it were
C34_Witness ==
  /\ bridge.phase = "ready"
  /\ bridge.outcomes = <<FALSE, TRUE, TRUE>>
  /\ servers = { <<"git">>, <<"web-search">> }

\* the names getAvailableTools() returns
AvailableNames(reg) == { getToolSchemas(reg)[i].name : i \in 1..Len(reg) }

\* C35: the bridge registry never shrinks: across connectServer,
\* disconnectServer and disconnectAll every name once returned by
\* getAvailableTools() stays listed and stays dispatchable through callTool,
\* also after its provider was disconnected, in both implementations
C35_RegistryNeverShrinks ==
  [][ \A n \in AvailableNames(registry) :
        /\ n \in AvailableNames(registry')
        /\ getTool(registry', n) # Absent ]_vars

\* a provider was disconnected and its tools are still listed
C35_Witness ==
  /\ bridge.phase \in {"ready", "down"}
  /\ <<"git">> \in bridge.succeeded
  /\ <<"git">> \notin servers
  /\ \E i \in 1..Len(registry) :
       /\ registry[i].server = <<"git">>
       /\ getTool(registry, registry[i].name) # Absent

\* C36: after shutdown has resolved no provider remains connected:
\* getConnectedServers() is empty in both implementations, also when
\* closing a provider's connection fails
C36_ShutdownDisconnectsAll ==
  bridge.phase = "down" => servers = {}

====
